---- MODULE Spec2Model ----
(***************************************************************************)
(* Model of the in-memory double-entry ledger engine (src/ledger/ledger.go) *)
(* of LedgerProject: the account map, the transaction log, the operations  *)
(* CreateAccount, RecordTransaction, GetAccountBalance,                    *)
(* GetTransactionHistory and VerifyLedgerBalance, and the RWMutex that     *)
(* serialises them.                                                        *)
(*                                                                         *)
(* decimal.Decimal is an arbitrary-precision decimal: amounts are modelled *)
(* as unbounded integers (a count of the smallest unit), so Add, Sub,      *)
(* LessThan and IsZero are exact, as in the library.                       *)
(***************************************************************************)
EXTENDS Integers, Sequences, FiniteSets, TLC

VARIABLES
    accounts,       \* ledger.accounts: map id -> *Account (DOMAIN = stored ids)
    transactions,   \* ledger.transactions: the log, in append order
    now,            \* the reading time.Now().UTC() gives at this moment
    opening,        \* history: id -> balance amount stored by CreateAccount
    lastOp,         \* the engine operation that returned last
    lastErr,        \* the error it returned (Nil for none)
    lastVal,        \* the value it returned (a Money, a history, or NoValue)
    mu,             \* ledger.mu: [writer |-> holder or 0, readers |-> holders]
    pc,             \* per goroutine: its position in the operation it runs
    call,           \* per goroutine: the operation and argument it was given
    local,          \* per goroutine: the operation's local variables
    cvmu,           \* CurrencyValidator.mu, shaped as mu
    ctxDone,        \* per context: its Done channel is closed
    ticker,         \* per audit loop: a tick waits in ticker.C
    loop,           \* per audit loop: its position in PerformPeriodicBalanceCheck
    sink,           \* per audit loop: the last error it logged (Nil for none)
    stopRequested,  \* the owner of the engine has fired its cancel functions
    response        \* what the HTTP handler that ran last wrote (NoResponse
                    \* while no handler has run)

ledgerVars == <<accounts, transactions, now, opening>>
callVars == <<lastOp, lastErr, lastVal, response>>
concVars == <<mu, pc, call, local, cvmu>>
auditVars == <<ctxDone, ticker, loop, sink, stopRequested>>
vars == <<accounts, transactions, now, opening, lastOp, lastErr, lastVal,
          mu, pc, call, local, cvmu,
          ctxDone, ticker, loop, sink, stopRequested, response>>

----------------------------------------------------------------------------
(* Bounds of the model *)

\* the log is capped at MaxTx entries (RecordTransaction is not offered beyond)
MaxTx == 2
\* the clock reads 0..MaxClock
MaxClock == 1
\* goroutines of the concurrent specification
NumWorkers == 3

----------------------------------------------------------------------------
(* Input domains *)

AccountIDs == {"1001", "2001"}
AccountNames == {"Cash"}
AccountTypes == {"asset", "liability"}
\* the codes the loaded ISO 4217 table holds
ValidCurrencies == {"USD", "EUR"}
\* codes a caller may put on an account ("XXX" is not in the table)
AccountCurrencies == {"USD", "EUR", "XXX"}
\* codes a caller may put on a declared balance: a code of the table, a code
\* that is not in it, or none
BalanceCurrencies == {"USD", "EUR", "XXX", ""}
OpeningAmounts == {-1, 0, 1}
TxIDs == {"tx001"}
TxCurrencies == {"USD", "EUR"}
TxAmounts == {-1, 1, 500}

Money(amount, currency) == [Amount |-> amount, Currency |-> currency]

\* the chart of accounts of the README: 1001 is an asset account, 2001 a
\* liability account
TypeOf(id) == IF id = "1001" THEN "asset" ELSE "liability"

\* the Account values a caller can submit
AccountInputs ==
    {a \in [ID : AccountIDs, Name : AccountNames, Type : AccountTypes,
            Currency : AccountCurrencies,
            Balance : [Amount : OpeningAmounts, Currency : BalanceCurrencies],
            CreateDateTime : {0}] : a.Type = TypeOf(a.ID)}

\* the Transaction values a caller can submit
TransactionInputs ==
    [ID : TxIDs, DateTime : {0}, Description : {"transfer"},
     DebitAccount : AccountIDs, CreditAccount : AccountIDs,
     Amount : [Amount : TxAmounts, Currency : TxCurrencies]]

----------------------------------------------------------------------------
(* Errors: the kind of the fmt.Errorf message and the values it formats *)

Nil == [kind |-> "nil", detail |-> <<>>]
Err(kind, detail) == [kind |-> kind, detail |-> detail]
NoValue == <<>>
NoResponse == [status |-> 0, body |-> <<>>, engineCalls |-> 0]

----------------------------------------------------------------------------
(* services.CurrencyValidator *)

IsValid(code) == code \in ValidCurrencies

----------------------------------------------------------------------------
(* CreateAccount (ledger.go 36-81), computed on the values it reads *)

\* line 42: the identifier is already a key of the map
AccountExists(accts, id) == id \in DOMAIN accts

\* variant: a zero declared amount keeps the currency it was submitted with
NormalizedBalanceKeepsCurrency(account) ==
    IF account.Balance.Amount = 0
    THEN Money(0, account.Balance.Currency)
    ELSE account.Balance

\* lines 57-59: a zero declared amount is replaced by zero in the account's
\* currency; any other declared balance is kept as submitted
NormalizedBalance(account) ==
    IF account.Balance.Amount = 0
    THEN Money(0, account.Currency)
    ELSE account.Balance

\* variant: no lookup of the identifier, a second create overwrites the entry
CreateAccountErrorNoExistsCheck(accts, account) ==
    IF ~IsValid(account.Currency)
    THEN Err("InvalidCurrency", <<account.Currency>>)
    ELSE IF account.Balance.Amount # 0
            /\ account.Balance.Currency # account.Currency
    THEN Err("CurrencyMismatch", <<account.Balance.Currency, account.Currency>>)
    ELSE Nil

\* variant: the account's currency is not validated
CreateAccountErrorNoCurrencyCheck(accts, account) ==
    IF AccountExists(accts, account.ID)
    THEN Err("DuplicateAccount", <<account.ID>>)
    ELSE IF account.Balance.Amount # 0
            /\ account.Balance.Currency # account.Currency
    THEN Err("CurrencyMismatch", <<account.Balance.Currency, account.Currency>>)
    ELSE Nil

\* variant: the balance currency is compared for zero amounts as well
CreateAccountErrorStrictBalance(accts, account) ==
    IF AccountExists(accts, account.ID)
    THEN Err("DuplicateAccount", <<account.ID>>)
    ELSE IF ~IsValid(account.Currency)
    THEN Err("InvalidCurrency", <<account.Currency>>)
    ELSE IF account.Balance.Currency # account.Currency
    THEN Err("CurrencyMismatch", <<account.Balance.Currency, account.Currency>>)
    ELSE Nil

\* variant: the balance currency is never compared
CreateAccountErrorNoBalanceCheck(accts, account) ==
    IF AccountExists(accts, account.ID)
    THEN Err("DuplicateAccount", <<account.ID>>)
    ELSE IF ~IsValid(account.Currency)
    THEN Err("InvalidCurrency", <<account.Currency>>)
    ELSE Nil

\* variant: the currency is validated before the identifier is looked up
CreateAccountErrorCurrencyFirst(accts, account) ==
    IF ~IsValid(account.Currency)
    THEN Err("InvalidCurrency", <<account.Currency>>)
    ELSE IF AccountExists(accts, account.ID)
    THEN Err("DuplicateAccount", <<account.ID>>)
    ELSE IF account.Balance.Amount # 0
            /\ account.Balance.Currency # account.Currency
    THEN Err("CurrencyMismatch", <<account.Balance.Currency, account.Currency>>)
    ELSE Nil

\* lines 42-71: the error CreateAccount returns, Nil when it stores
CreateAccountError(accts, account) ==
    IF AccountExists(accts, account.ID)
    THEN Err("DuplicateAccount", <<account.ID>>)
    ELSE IF ~IsValid(account.Currency)
    THEN Err("InvalidCurrency", <<account.Currency>>)
    ELSE IF account.Balance.Amount # 0
            /\ account.Balance.Currency # account.Currency
    THEN Err("CurrencyMismatch", <<account.Balance.Currency, account.Currency>>)
    ELSE Nil

\* lines 73-74: the value stored under account.ID
StoredAccount(account, t) ==
    [account EXCEPT !.Balance = NormalizedBalance(account),
                    !.CreateDateTime = t]

\* line 74: l.accounts[account.ID] = &account
PutAccount(accts, acc) ==
    [id \in DOMAIN accts \cup {acc.ID} |->
        IF id = acc.ID THEN acc ELSE accts[id]]

----------------------------------------------------------------------------
(* RecordTransaction (ledger.go 83-148), computed on the values it reads.  *)
(* debitAcc and creditAcc are pointers into the map: when both identifiers *)
(* name one account the two writes hit the same Account, which the model   *)
(* keeps by applying the writes one after the other to the map.            *)

BalanceOf(accts, id) == accts[id].Balance.Amount

\* variant: only the debit account's currency is compared
CurrencyMismatchDebitOnly(accts, tx) ==
    accts[tx.DebitAccount].Currency # tx.Amount.Currency

\* line 106
CurrencyMismatch(accts, tx) ==
    \/ accts[tx.DebitAccount].Currency # tx.Amount.Currency
    \/ accts[tx.CreditAccount].Currency # tx.Amount.Currency

\* variant: LessThanOrEqual in place of LessThan
InsufficientFundsOrEqual(accts, tx) ==
    BalanceOf(accts, tx.DebitAccount) <= tx.Amount.Amount

\* variant: the funds check compares with zero, not with the amount
InsufficientFundsBelowZero(accts, tx) ==
    BalanceOf(accts, tx.DebitAccount) < 0

\* line 115: debitAcc.Balance.Amount.LessThan(tx.Amount.Amount)
InsufficientFunds(accts, tx) ==
    BalanceOf(accts, tx.DebitAccount) < tx.Amount.Amount

\* line 121: debitAcc.Balance.Amount = debitAcc.Balance.Amount.Sub(amount)
ApplyDebit(accts, tx) ==
    [accts EXCEPT ![tx.DebitAccount].Balance.Amount = @ - tx.Amount.Amount]

\* line 122: creditAcc.Balance.Amount = creditAcc.Balance.Amount.Add(amount)
ApplyCredit(accts, tx) ==
    [accts EXCEPT ![tx.CreditAccount].Balance.Amount = @ + tx.Amount.Amount]

\* lines 125-126, read through the two pointers after both writes
TotalChange(accts, tx, initialDebitBalance, initialCreditBalance) ==
    (initialDebitBalance - BalanceOf(accts, tx.DebitAccount))
      - (BalanceOf(accts, tx.CreditAccount) - initialCreditBalance)

\* variant: the rollback restores the debit account only
RollbackDebitOnly(accts, tx, initialDebitBalance, initialCreditBalance) ==
    [accts EXCEPT ![tx.DebitAccount].Balance.Amount = initialDebitBalance]

\* lines 130-131: the debit pointer is restored first, then the credit pointer
Rollback(accts, tx, initialDebitBalance, initialCreditBalance) ==
    [[accts EXCEPT ![tx.DebitAccount].Balance.Amount = initialDebitBalance]
        EXCEPT ![tx.CreditAccount].Balance.Amount = initialCreditBalance]

\* variant: the two accounts are copies read before the writes, each written
\* back from its own copy
TransferByValue(accts, tx) ==
    [[accts EXCEPT ![tx.DebitAccount].Balance.Amount =
                       BalanceOf(accts, tx.DebitAccount) - tx.Amount.Amount]
        EXCEPT ![tx.CreditAccount].Balance.Amount =
                   BalanceOf(accts, tx.CreditAccount) + tx.Amount.Amount]

\* lines 120-122: the map after both balance writes
Transfer(accts, tx) == ApplyCredit(ApplyDebit(accts, tx), tx)

\* variant: a transaction whose identifier is already in the log is refused
RecordTransactionCheckErrorUniqueID(accts, tx) ==
    IF \E i \in 1..Len(transactions) : transactions[i].ID = tx.ID
    THEN Err("DuplicateTransaction", <<tx.ID>>)
    ELSE IF ~AccountExists(accts, tx.DebitAccount)
    THEN Err("AccountNotFound", <<"debit", tx.DebitAccount>>)
    ELSE IF ~AccountExists(accts, tx.CreditAccount)
    THEN Err("AccountNotFound", <<"credit", tx.CreditAccount>>)
    ELSE IF CurrencyMismatch(accts, tx)
    THEN Err("CurrencyMismatch", <<tx.Amount.Currency>>)
    ELSE IF InsufficientFunds(accts, tx)
    THEN Err("InsufficientFunds", <<tx.DebitAccount>>)
    ELSE Nil

\* variant: the credit account is looked up before the debit account
RecordTransactionCheckErrorCreditFirst(accts, tx) ==
    IF ~AccountExists(accts, tx.CreditAccount)
    THEN Err("AccountNotFound", <<"credit", tx.CreditAccount>>)
    ELSE IF ~AccountExists(accts, tx.DebitAccount)
    THEN Err("AccountNotFound", <<"debit", tx.DebitAccount>>)
    ELSE IF CurrencyMismatch(accts, tx)
    THEN Err("CurrencyMismatch", <<tx.Amount.Currency>>)
    ELSE IF InsufficientFunds(accts, tx)
    THEN Err("InsufficientFunds", <<tx.DebitAccount>>)
    ELSE Nil

\* lines 92-118: the error of the checks made before any write, Nil when
\* they all pass
RecordTransactionCheckError(accts, tx) ==
    IF ~AccountExists(accts, tx.DebitAccount)
    THEN Err("AccountNotFound", <<"debit", tx.DebitAccount>>)
    ELSE IF ~AccountExists(accts, tx.CreditAccount)
    THEN Err("AccountNotFound", <<"credit", tx.CreditAccount>>)
    ELSE IF CurrencyMismatch(accts, tx)
    THEN Err("CurrencyMismatch", <<tx.Amount.Currency>>)
    ELSE IF InsufficientFunds(accts, tx)
    THEN Err("InsufficientFunds", <<tx.DebitAccount>>)
    ELSE Nil

\* lines 128-138: the error of the consistency check made after the writes
UnbalancedError(totalChange, tx) ==
    IF totalChange # 0
    THEN Err("UnbalancedTransaction", <<totalChange, tx.Amount.Currency>>)
    ELSE Nil

\* lines 92-138: the error RecordTransaction returns, Nil when it commits
RecordTransactionError(accts, tx) ==
    LET checked == RecordTransactionCheckError(accts, tx)
    IN  IF checked.kind # "nil" THEN checked
        ELSE UnbalancedError(
                 TotalChange(Transfer(accts, tx), tx,
                             BalanceOf(accts, tx.DebitAccount),
                             BalanceOf(accts, tx.CreditAccount)), tx)

\* variant: creditAcc is a copy of the map's Account, so the credit is lost
RecordTransactionAccountsCreditLost(accts, tx) ==
    IF RecordTransactionError(accts, tx).kind = "nil"
    THEN ApplyDebit(accts, tx)
    ELSE accts

\* variant: the debit is written before the funds check and not undone
RecordTransactionAccountsDebitKept(accts, tx) ==
    LET kind == RecordTransactionError(accts, tx).kind
    IN  IF kind = "nil" THEN Transfer(accts, tx)
        ELSE IF kind = "InsufficientFunds" THEN ApplyDebit(accts, tx)
        ELSE accts

\* variant: the balances follow the accounting convention of the account
\* type: asset and expense accounts grow when debited, the others when credited
RecordTransactionAccountsByType(accts, tx) ==
    LET a == tx.Amount.Amount
        debitType == accts[tx.DebitAccount].Type
        creditType == accts[tx.CreditAccount].Type
        debited == [accts EXCEPT ![tx.DebitAccount].Balance.Amount =
                       IF debitType \in {"asset", "expense"}
                       THEN @ + a ELSE @ - a]
    IN  IF RecordTransactionError(accts, tx).kind = "nil"
        THEN [debited EXCEPT ![tx.CreditAccount].Balance.Amount =
                 IF creditType \in {"asset", "expense"} THEN @ - a ELSE @ + a]
        ELSE accts

\* variant: the credit is skipped when the credit account is the debit account
RecordTransactionAccountsSelfDebited(accts, tx) ==
    IF RecordTransactionError(accts, tx).kind # "nil" THEN accts
    ELSE IF tx.DebitAccount = tx.CreditAccount THEN ApplyDebit(accts, tx)
    ELSE Transfer(accts, tx)

\* lines 92-138: the account map RecordTransaction leaves
RecordTransactionAccounts(accts, tx) ==
    LET err == RecordTransactionError(accts, tx)
    IN  IF err.kind = "nil" THEN Transfer(accts, tx)
        ELSE IF err.kind = "UnbalancedTransaction"
        THEN Rollback(Transfer(accts, tx), tx,
                      BalanceOf(accts, tx.DebitAccount),
                      BalanceOf(accts, tx.CreditAccount))
        ELSE accts

\* variant: the logged entry is rebuilt without the description
StampedTransactionNoDescription(tx, t) ==
    [tx EXCEPT !.DateTime = t, !.Description = ""]

\* variant: the entry keeps the timestamp it was submitted with
StampedTransactionCallerTime(tx, t) == tx

\* lines 141-142: the entry appended to the log
StampedTransaction(tx, t) == [tx EXCEPT !.DateTime = t]

----------------------------------------------------------------------------
(* The queries (ledger.go 150-179, 200-229) *)

\* lines 155-162
GetAccountBalanceError(accts, accountID) ==
    IF AccountExists(accts, accountID) THEN Nil
    ELSE Err("AccountNotFound", <<"", accountID>>)

\* variant: the zero Money is returned on both paths
GetAccountBalanceValueZero(accts, accountID) == Money(0, "")

GetAccountBalanceValue(accts, accountID) ==
    IF AccountExists(accts, accountID) THEN accts[accountID].Balance
    ELSE Money(0, "")

\* variant: an entry is appended once for each role accountID has in it
RECURSIVE HistoryPerRole(_, _)
HistoryPerRole(log, accountID) ==
    IF log = <<>> THEN <<>>
    ELSE LET tx == Head(log)
             rest == HistoryPerRole(Tail(log), accountID)
         IN  (IF tx.DebitAccount = accountID THEN <<tx>> ELSE <<>>)
               \o (IF tx.CreditAccount = accountID THEN <<tx>> ELSE <<>>)
               \o rest

\* lines 170-175: the entries naming accountID, in log order
RECURSIVE History(_, _)
History(log, accountID) ==
    IF log = <<>> THEN <<>>
    ELSE LET tx == Head(log)
             rest == History(Tail(log), accountID)
         IN  IF tx.DebitAccount = accountID \/ tx.CreditAccount = accountID
             THEN <<tx>> \o rest
             ELSE rest

\* variant: every account's balance is added, whatever its currency
RECURSIVE SumBalancesAnyCurrency(_, _, _)
SumBalancesAnyCurrency(accts, ids, curr) ==
    IF ids = {} THEN 0
    ELSE LET id == CHOOSE i \in ids : TRUE
         IN  BalanceOf(accts, id) + SumBalancesAnyCurrency(accts, ids \ {id}, curr)

\* lines 208-214: balancesByCurrency[curr], the sum over the accounts of curr
RECURSIVE SumBalances(_, _, _)
SumBalances(accts, ids, curr) ==
    IF ids = {} THEN 0
    ELSE LET id == CHOOSE i \in ids : TRUE
         IN  (IF accts[id].Currency = curr THEN BalanceOf(accts, id) ELSE 0)
               + SumBalances(accts, ids \ {id}, curr)

CurrenciesOf(accts) == {accts[id].Currency : id \in DOMAIN accts}

BalancesByCurrency(accts) ==
    [curr \in CurrenciesOf(accts) |-> SumBalances(accts, DOMAIN accts, curr)]

\* lines 217-228: the errors VerifyLedgerBalance can return. The loop ranges
\* over a Go map, whose iteration order is unspecified: with several
\* unbalanced currencies any of them may be the one reported.
VerifyLedgerBalanceErrors(accts) ==
    LET totals == BalancesByCurrency(accts)
        unbalanced == {c \in DOMAIN totals : totals[c] # 0}
    IN  IF unbalanced = {} THEN {Nil}
        ELSE {Err("LedgerUnbalanced", <<c, totals[c]>>) : c \in unbalanced}

----------------------------------------------------------------------------
(* The goroutines of the concurrent specification *)

Workers == 1..NumWorkers

NoCall == [op |-> "none", arg |-> <<>>]
NoLocal == [initialDebitBalance |-> 0, initialCreditBalance |-> 0,
            computed |-> 0, err |-> Nil, val |-> NoValue]

----------------------------------------------------------------------------
(* The audit loops. NewLedger starts one under context.Background()        *)
(* (ledger.go 30-31); a caller can start another under a context of its    *)
(* own, as TestPeriodicBalanceCheck does with context.WithCancel.          *)

Loops == {"engine", "caller"}
Contexts == {"Background", "WithCancel"}

\* the context each loop was given
CtxOf(l) == IF l = "engine" THEN "Background" ELSE "WithCancel"

\* the goroutine that runs loop l, numbered after the foreground goroutines
GoroutineOf(l) == IF l = "engine" THEN NumWorkers + 1 ELSE NumWorkers + 2

\* context.Background() is never cancelled: it has no cancel function
HasCancel(c) == c = "WithCancel"

\* the initial values of the variables of the audit loops: the loop of
\* NewLedger waits in its select, no other loop is started
AuditStart ==
    /\ ctxDone = [c \in Contexts |-> FALSE]
    /\ ticker = [l \in Loops |-> FALSE]
    /\ loop = [l \in Loops |-> IF l = "engine" THEN "select" ELSE "idle"]
    /\ sink = [l \in Loops |-> Nil]
    /\ stopRequested = FALSE

----------------------------------------------------------------------------
(* The engine after NewLedger (ledger.go 22-34): no account, an empty log *)

Init ==
    /\ accounts = <<>>
    /\ transactions = <<>>
    /\ now = 0
    /\ opening = <<>>
    /\ lastOp = "NewLedger"
    /\ lastErr = Nil
    /\ lastVal = NoValue
    /\ response = NoResponse
    /\ mu = [writer |-> 0, readers |-> {}]
    /\ pc = [w \in Workers |-> "idle"]
    /\ call = [w \in Workers |-> NoCall]
    /\ local = [w \in Workers |-> NoLocal]
    /\ cvmu = [writer |-> 0, readers |-> {}]
    /\ AuditStart

----------------------------------------------------------------------------
(* One action per engine call. Every operation runs from Lock/RLock to the *)
(* deferred Unlock/RUnlock without leaving the critical section, so a call *)
(* that no other call overlaps is one step.                                *)

\* the clock advances between calls
Tick ==
    /\ now < MaxClock
    /\ now' = now + 1
    /\ UNCHANGED <<accounts, transactions, opening>>
    /\ UNCHANGED callVars
    /\ UNCHANGED concVars
    /\ UNCHANGED auditVars

\* ledger.go 36-81, as the call s.ledger.CreateAccount(account) of a handler
LedgerCreateAccount(account) ==
    LET err == CreateAccountError(accounts, account)
        stored == StoredAccount(account, now)
    IN  /\ lastOp' = "CreateAccount"
        /\ lastErr' = err
        /\ lastVal' = NoValue
        /\ IF err.kind = "nil"
           THEN /\ accounts' = PutAccount(accounts, stored)
                /\ opening' = [id \in DOMAIN opening \cup {account.ID} |->
                                 IF id = account.ID THEN stored.Balance.Amount
                                 ELSE opening[id]]
           ELSE UNCHANGED <<accounts, opening>>
        /\ UNCHANGED <<transactions, now>>
        /\ UNCHANGED concVars
        /\ UNCHANGED auditVars

\* ledger.go 36-81, called directly
CreateAccount(account) ==
    /\ LedgerCreateAccount(account)
    /\ UNCHANGED response

\* ledger.go 83-148, as the call s.ledger.RecordTransaction(tx) of a handler
LedgerRecordTransaction(tx) ==
    LET err == RecordTransactionError(accounts, tx)
    IN  /\ lastOp' = "RecordTransaction"
        /\ lastErr' = err
        /\ lastVal' = NoValue
        /\ accounts' = RecordTransactionAccounts(accounts, tx)
        /\ transactions' = IF err.kind = "nil"
                           THEN Append(transactions, StampedTransaction(tx, now))
                           ELSE transactions
        /\ UNCHANGED <<now, opening>>
        /\ UNCHANGED concVars
        /\ UNCHANGED auditVars

\* ledger.go 83-148, called directly
RecordTransactionCall(tx) ==
    /\ LedgerRecordTransaction(tx)
    /\ UNCHANGED response

\* ledger.go 83-148, offered while the log is below its cap
RecordTransaction(tx) ==
    /\ Len(transactions) < MaxTx
    /\ RecordTransactionCall(tx)

\* ledger.go 150-163, as the call s.ledger.GetAccountBalance(accountID) of a
\* handler
LedgerGetAccountBalance(accountID) ==
    /\ lastOp' = "GetAccountBalance"
    /\ lastErr' = GetAccountBalanceError(accounts, accountID)
    /\ lastVal' = GetAccountBalanceValue(accounts, accountID)
    /\ UNCHANGED ledgerVars
    /\ UNCHANGED concVars
    /\ UNCHANGED auditVars

\* ledger.go 150-163, called directly
GetAccountBalance(accountID) ==
    /\ LedgerGetAccountBalance(accountID)
    /\ UNCHANGED response

\* ledger.go 165-179, as the call s.ledger.GetTransactionHistory(accountID)
\* of a handler
LedgerGetTransactionHistory(accountID) ==
    /\ lastOp' = "GetTransactionHistory"
    /\ lastErr' = Nil
    /\ lastVal' = History(transactions, accountID)
    /\ UNCHANGED ledgerVars
    /\ UNCHANGED concVars
    /\ UNCHANGED auditVars

\* variant: the entries returned are taken out of the log
GetTransactionHistoryConsuming(accountID) ==
    /\ lastOp' = "GetTransactionHistory"
    /\ lastErr' = Nil
    /\ lastVal' = History(transactions, accountID)
    /\ transactions' = SelectSeq(transactions,
                            LAMBDA t : /\ t.DebitAccount # accountID
                                       /\ t.CreditAccount # accountID)
    /\ UNCHANGED <<accounts, now, opening>>
    /\ UNCHANGED concVars
    /\ UNCHANGED auditVars
    /\ UNCHANGED response

\* ledger.go 165-179, called directly
GetTransactionHistory(accountID) ==
    /\ LedgerGetTransactionHistory(accountID)
    /\ UNCHANGED response

\* ledger.go 200-229
VerifyLedgerBalance ==
    /\ lastOp' = "VerifyLedgerBalance"
    /\ lastErr' \in VerifyLedgerBalanceErrors(accounts)
    /\ lastVal' = NoValue
    /\ UNCHANGED response
    /\ UNCHANGED ledgerVars
    /\ UNCHANGED concVars
    /\ UNCHANGED auditVars

Next ==
    \/ \E account \in AccountInputs : CreateAccount(account)
    \/ \E tx \in TransactionInputs : RecordTransaction(tx)
    \/ \E accountID \in AccountIDs : GetAccountBalance(accountID)
    \/ \E accountID \in AccountIDs : GetTransactionHistory(accountID)
    \/ VerifyLedgerBalance

\* the calls, with the clock standing still
Spec == Init /\ [][Next]_vars

\* the calls, with the clock advancing between them
NextTimed == Next \/ Tick

SpecTimed == Init /\ [][NextTimed]_vars

\* the life of the account map alone: accounts are created and read while the
\* clock advances, no transfer is recorded
NextAccounts ==
    \/ \E account \in AccountInputs : CreateAccount(account)
    \/ \E accountID \in AccountIDs : GetAccountBalance(accountID)
    \/ Tick

SpecAccounts == Init /\ [][NextAccounts]_vars

----------------------------------------------------------------------------
(* The workflow of the README (Complete Workflow Example): four accounts   *)
(* and three transactions, amounts in whole dollars. The calls may come in *)
(* any order and any number of times; the funds of 1001 and 5001 bound the *)
(* log.                                                                    *)

WorkflowAccount(id, name, type, amount) ==
    [ID |-> id, Name |-> name, Type |-> type, Currency |-> "USD",
     Balance |-> Money(amount, "USD"), CreateDateTime |-> 0]

WorkflowAccounts ==
    { WorkflowAccount("1001", "Cash Account", "asset", 15000),
      WorkflowAccount("2001", "Loan Account", "liability", 0),
      WorkflowAccount("4001", "Sales Revenue", "revenue", 0),
      WorkflowAccount("5001", "Operating Expenses", "expense", 2000) }

WorkflowIDs == {account.ID : account \in WorkflowAccounts}

WorkflowTransaction(id, description, debit, credit, amount) ==
    [ID |-> id, DateTime |-> 0, Description |-> description,
     DebitAccount |-> debit, CreditAccount |-> credit,
     Amount |-> Money(amount, "USD")]

WorkflowTransactions ==
    << WorkflowTransaction("tx001", "Initial bank loan", "1001", "2001", 10000),
       WorkflowTransaction("tx002", "Client payment for services",
                           "1001", "4001", 5000),
       WorkflowTransaction("tx003", "Office rent payment",
                           "5001", "1001", 2000) >>

NextWorkflow ==
    \/ \E account \in WorkflowAccounts : CreateAccount(account)
    \/ \E i \in DOMAIN WorkflowTransactions :
          RecordTransactionCall(WorkflowTransactions[i])
    \/ \E accountID \in WorkflowIDs : GetAccountBalance(accountID)
    \/ \E accountID \in WorkflowIDs : GetTransactionHistory(accountID)

SpecWorkflow == Init /\ [][NextWorkflow]_vars

----------------------------------------------------------------------------
(* Concurrent calls: each goroutine runs one engine call, statement by      *)
(* statement, between acquiring and releasing ledger.mu.                    *)

\* the two accounts of TestLedger_ConcurrentOperations, stored by CreateAccount
\* with the given opening amounts in USD
OpenedWith(a, b) ==
    PutAccount(
        PutAccount(<<>>,
            StoredAccount([ID |-> "1001", Name |-> "Cash", Type |-> "asset",
                           Currency |-> "USD", Balance |-> Money(a, "USD"),
                           CreateDateTime |-> 0], 0)),
        StoredAccount([ID |-> "2001", Name |-> "Cash", Type |-> "liability",
                       Currency |-> "USD", Balance |-> Money(b, "USD"),
                       CreateDateTime |-> 0], 0))

\* opening amounts of 1001 and 2001: those of the test, and a pair that sums
\* to zero and covers two transfers only
ConcOpenings == {<<1000, 1000>>, <<20, -20>>}

ConcTransfer(from, to) ==
    [ID |-> "tx001", DateTime |-> 0, Description |-> "transfer",
     DebitAccount |-> from, CreditAccount |-> to,
     Amount |-> Money(10, "USD")]

\* the calls a goroutine can be given, in a fixed order
ConcCalls ==
    << [op |-> "RecordTransaction", arg |-> ConcTransfer("1001", "2001")],
       [op |-> "RecordTransaction", arg |-> ConcTransfer("2001", "1001")],
       [op |-> "VerifyLedgerBalance", arg |-> <<>>],
       [op |-> "GetAccountBalance", arg |-> "1001"],
       [op |-> "GetTransactionHistory", arg |-> "1001"] >>

\* goroutines are interchangeable: calls are handed out in the order of
\* ConcCalls, so that each multiset of calls is explored once
InitConc ==
    /\ \E o \in ConcOpenings :
          /\ accounts = OpenedWith(o[1], o[2])
          /\ opening = [id \in AccountIDs |->
                          IF id = "1001" THEN o[1] ELSE o[2]]
    /\ transactions = <<>>
    /\ now = 0
    /\ lastOp = "CreateAccount"
    /\ lastErr = Nil
    /\ lastVal = NoValue
    /\ response = NoResponse
    /\ mu = [writer |-> 0, readers |-> {}]
    /\ pc = [w \in Workers |-> "start"]
    /\ \E pick \in [Workers -> 1..Len(ConcCalls)] :
          /\ \A w \in Workers : w + 1 \in Workers => pick[w] <= pick[w + 1]
          /\ call = [w \in Workers |-> ConcCalls[pick[w]]]
    /\ local = [w \in Workers |-> NoLocal]
    /\ cvmu = [writer |-> 0, readers |-> {}]
    /\ AuditStart

\* variant: Lock does not wait for the holders of the lock
CanLockAlways == TRUE

\* mu.Lock() returns once no goroutine holds the lock in either mode
CanLock == mu.writer = 0 /\ mu.readers = {}

\* variant: the read operations take no lock
CanRLockAlways == TRUE

\* mu.RLock() returns once no goroutine holds the lock in write mode
CanRLock == mu.writer = 0

\* ledger.go 85: l.mu.Lock()
Lock(w) ==
    /\ pc[w] = "start"
    /\ call[w].op = "RecordTransaction"
    /\ CanLock
    /\ mu' = [mu EXCEPT !.writer = w]
    /\ pc' = [pc EXCEPT ![w] = "check"]
    /\ UNCHANGED <<call, local>>
    /\ UNCHANGED ledgerVars
    /\ UNCHANGED callVars
    /\ UNCHANGED cvmu
    /\ UNCHANGED auditVars

\* ledger.go 89-118: the lookups, the initial balances and the checks
RecordTransactionCheck(w) ==
    LET tx == call[w].arg
        err == RecordTransactionCheckError(accounts, tx)
    IN  /\ pc[w] = "check"
        /\ local' = [local EXCEPT
              ![w].initialDebitBalance =
                  IF AccountExists(accounts, tx.DebitAccount)
                  THEN BalanceOf(accounts, tx.DebitAccount) ELSE 0,
              ![w].initialCreditBalance =
                  IF AccountExists(accounts, tx.DebitAccount)
                     /\ AccountExists(accounts, tx.CreditAccount)
                  THEN BalanceOf(accounts, tx.CreditAccount) ELSE 0,
              ![w].err = err]
        /\ pc' = [pc EXCEPT ![w] = IF err.kind = "nil" THEN "debit"
                                   ELSE "unlock"]
        /\ UNCHANGED <<mu, call>>
        /\ UNCHANGED ledgerVars
        /\ UNCHANGED callVars
        /\ UNCHANGED cvmu
        /\ UNCHANGED auditVars

\* a balance written through the pointer into the map
StoreBalance(accts, id, amount) ==
    [accts EXCEPT ![id].Balance.Amount = amount]

\* ledger.go 121, right-hand side: debitAcc.Balance.Amount.Sub(amount)
RecordTransactionDebit(w) ==
    /\ pc[w] = "debit"
    /\ local' = [local EXCEPT ![w].computed =
          BalanceOf(accounts, call[w].arg.DebitAccount)
            - call[w].arg.Amount.Amount]
    /\ pc' = [pc EXCEPT ![w] = "debitStore"]
    /\ UNCHANGED <<mu, call>>
    /\ UNCHANGED ledgerVars
    /\ UNCHANGED callVars
    /\ UNCHANGED cvmu
    /\ UNCHANGED auditVars

\* ledger.go 121, assignment to debitAcc.Balance.Amount
RecordTransactionDebitStore(w) ==
    /\ pc[w] = "debitStore"
    /\ accounts' = StoreBalance(accounts, call[w].arg.DebitAccount,
                                local[w].computed)
    /\ pc' = [pc EXCEPT ![w] = "credit"]
    /\ UNCHANGED <<transactions, now, opening>>
    /\ UNCHANGED <<mu, call, local>>
    /\ UNCHANGED callVars
    /\ UNCHANGED cvmu
    /\ UNCHANGED auditVars

\* ledger.go 122, right-hand side: creditAcc.Balance.Amount.Add(amount)
RecordTransactionCredit(w) ==
    /\ pc[w] = "credit"
    /\ local' = [local EXCEPT ![w].computed =
          BalanceOf(accounts, call[w].arg.CreditAccount)
            + call[w].arg.Amount.Amount]
    /\ pc' = [pc EXCEPT ![w] = "creditStore"]
    /\ UNCHANGED <<mu, call>>
    /\ UNCHANGED ledgerVars
    /\ UNCHANGED callVars
    /\ UNCHANGED cvmu
    /\ UNCHANGED auditVars

\* ledger.go 122, assignment to creditAcc.Balance.Amount
RecordTransactionCreditStore(w) ==
    /\ pc[w] = "creditStore"
    /\ accounts' = StoreBalance(accounts, call[w].arg.CreditAccount,
                                local[w].computed)
    /\ pc' = [pc EXCEPT ![w] = "verify"]
    /\ UNCHANGED <<transactions, now, opening>>
    /\ UNCHANGED <<mu, call, local>>
    /\ UNCHANGED callVars
    /\ UNCHANGED cvmu
    /\ UNCHANGED auditVars

\* ledger.go 125-138: the consistency check and its rollback
RecordTransactionVerify(w) ==
    LET tx == call[w].arg
        err == UnbalancedError(
                   TotalChange(accounts, tx, local[w].initialDebitBalance,
                               local[w].initialCreditBalance), tx)
    IN  /\ pc[w] = "verify"
        /\ local' = [local EXCEPT ![w].err = err]
        /\ IF err.kind = "nil"
           THEN /\ pc' = [pc EXCEPT ![w] = "append"]
                /\ UNCHANGED accounts
           ELSE /\ pc' = [pc EXCEPT ![w] = "unlock"]
                /\ accounts' = Rollback(accounts, tx,
                                        local[w].initialDebitBalance,
                                        local[w].initialCreditBalance)
        /\ UNCHANGED <<transactions, now, opening>>
        /\ UNCHANGED <<mu, call>>
        /\ UNCHANGED callVars
        /\ UNCHANGED cvmu
        /\ UNCHANGED auditVars

\* ledger.go 141-142
RecordTransactionAppend(w) ==
    /\ pc[w] = "append"
    /\ transactions' = Append(transactions,
                              StampedTransaction(call[w].arg, now))
    /\ pc' = [pc EXCEPT ![w] = "unlock"]
    /\ UNCHANGED <<accounts, now, opening>>
    /\ UNCHANGED <<mu, call, local>>
    /\ UNCHANGED callVars
    /\ UNCHANGED cvmu
    /\ UNCHANGED auditVars

\* ledger.go 86: defer l.mu.Unlock(), run at the return
Unlock(w) ==
    /\ pc[w] = "unlock"
    /\ mu' = [mu EXCEPT !.writer = IF @ = w THEN 0 ELSE @]
    /\ pc' = [pc EXCEPT ![w] = "done"]
    /\ UNCHANGED <<call, local>>
    /\ UNCHANGED ledgerVars
    /\ UNCHANGED callVars
    /\ UNCHANGED cvmu
    /\ UNCHANGED auditVars

ReadOps == {"GetAccountBalance", "GetTransactionHistory", "VerifyLedgerBalance"}

\* ledger.go 152, 167, 202: l.mu.RLock()
RLock(w) ==
    /\ pc[w] = "start"
    /\ call[w].op \in ReadOps
    /\ CanRLock
    /\ mu' = [mu EXCEPT !.readers = @ \cup {w}]
    /\ pc' = [pc EXCEPT ![w] = "read"]
    /\ UNCHANGED <<call, local>>
    /\ UNCHANGED ledgerVars
    /\ UNCHANGED callVars
    /\ UNCHANGED cvmu
    /\ UNCHANGED auditVars

\* ledger.go 155-162
GetAccountBalanceRead(w) ==
    /\ pc[w] = "read"
    /\ call[w].op = "GetAccountBalance"
    /\ local' = [local EXCEPT
          ![w].err = GetAccountBalanceError(accounts, call[w].arg),
          ![w].val = GetAccountBalanceValue(accounts, call[w].arg)]
    /\ pc' = [pc EXCEPT ![w] = "runlock"]
    /\ UNCHANGED <<mu, call>>
    /\ UNCHANGED ledgerVars
    /\ UNCHANGED callVars
    /\ UNCHANGED cvmu
    /\ UNCHANGED auditVars

\* ledger.go 170-178
GetTransactionHistoryRead(w) ==
    /\ pc[w] = "read"
    /\ call[w].op = "GetTransactionHistory"
    /\ local' = [local EXCEPT
          ![w].val = History(transactions, call[w].arg)]
    /\ pc' = [pc EXCEPT ![w] = "runlock"]
    /\ UNCHANGED <<mu, call>>
    /\ UNCHANGED ledgerVars
    /\ UNCHANGED callVars
    /\ UNCHANGED cvmu
    /\ UNCHANGED auditVars

\* ledger.go 206-228
VerifyLedgerBalanceRead(w) ==
    /\ pc[w] = "read"
    /\ call[w].op = "VerifyLedgerBalance"
    /\ \E err \in VerifyLedgerBalanceErrors(accounts) :
          local' = [local EXCEPT ![w].err = err]
    /\ pc' = [pc EXCEPT ![w] = "runlock"]
    /\ UNCHANGED <<mu, call>>
    /\ UNCHANGED ledgerVars
    /\ UNCHANGED callVars
    /\ UNCHANGED cvmu
    /\ UNCHANGED auditVars

\* ledger.go 153, 168, 203: defer l.mu.RUnlock(), run at the return
RUnlock(w) ==
    /\ pc[w] = "runlock"
    /\ mu' = [mu EXCEPT !.readers = @ \ {w}]
    /\ pc' = [pc EXCEPT ![w] = "done"]
    /\ UNCHANGED <<call, local>>
    /\ UNCHANGED ledgerVars
    /\ UNCHANGED callVars
    /\ UNCHANGED cvmu
    /\ UNCHANGED auditVars

NextConc ==
    \E w \in Workers :
       \/ Lock(w)
       \/ RecordTransactionCheck(w)
       \/ RecordTransactionDebit(w)
       \/ RecordTransactionDebitStore(w)
       \/ RecordTransactionCredit(w)
       \/ RecordTransactionCreditStore(w)
       \/ RecordTransactionVerify(w)
       \/ RecordTransactionAppend(w)
       \/ Unlock(w)
       \/ RLock(w)
       \/ GetAccountBalanceRead(w)
       \/ GetTransactionHistoryRead(w)
       \/ VerifyLedgerBalanceRead(w)
       \/ RUnlock(w)

SpecConc == InitConc /\ [][NextConc]_vars

----------------------------------------------------------------------------
(* PerformPeriodicBalanceCheck (ledger.go 181-198), statement by statement, *)
(* next to foreground calls. A foreground call runs from Lock/RLock to its  *)
(* deferred unlock in one step, which it can take when the lock is free in  *)
(* the mode it asks for.                                                    *)

\* variant: the loop ranges over ticker.C and never looks at ctx.Done()
CtxDoneIgnored(l) == FALSE

\* line 188: case <-ctx.Done() is ready
CtxDone(l) == ctxDone[CtxOf(l)]

\* variant: the loop returns when an audit fails
AfterAuditReturnOnError(err) == IF err = Nil THEN "select" ELSE "returned"

\* lines 186, 191-196: whatever VerifyLedgerBalance returned, the for loop
\* goes round to the select
AfterAudit(err) == "select"

\* the accounts and the transfer the foreground callers submit
AuditAccounts ==
    { [ID |-> "1001", Name |-> "Cash", Type |-> "asset", Currency |-> "USD",
       Balance |-> Money(1, "USD"), CreateDateTime |-> 0],
      [ID |-> "2001", Name |-> "Cash", Type |-> "liability", Currency |-> "USD",
       Balance |-> Money(-1, "USD"), CreateDateTime |-> 0] }

AuditTransfer ==
    [ID |-> "tx001", DateTime |-> 0, Description |-> "transfer",
     DebitAccount |-> "1001", CreditAccount |-> "2001",
     Amount |-> Money(1, "USD")]

\* the state after NewLedger and go PerformPeriodicBalanceCheck(ctx) with a
\* context from context.WithCancel: both loops wait in their select
InitAudit ==
    /\ accounts = <<>>
    /\ transactions = <<>>
    /\ now = 0
    /\ opening = <<>>
    /\ lastOp = "NewLedger"
    /\ lastErr = Nil
    /\ lastVal = NoValue
    /\ response = NoResponse
    /\ mu = [writer |-> 0, readers |-> {}]
    /\ pc = [w \in Workers |-> "idle"]
    /\ call = [w \in Workers |-> NoCall]
    /\ local = [w \in Workers |-> NoLocal]
    /\ cvmu = [writer |-> 0, readers |-> {}]
    /\ ctxDone = [c \in Contexts |-> FALSE]
    /\ ticker = [l \in Loops |-> FALSE]
    /\ loop = [l \in Loops |-> "select"]
    /\ sink = [l \in Loops |-> Nil]
    /\ stopRequested = FALSE

\* the frame of a step of an audit loop or of its surroundings
AuditFrame ==
    /\ UNCHANGED ledgerVars
    /\ UNCHANGED callVars
    /\ UNCHANGED <<pc, call, local, cvmu>>

\* line 183: the hour of the ticker has passed and a tick is put in ticker.C
\* (the channel holds one tick; a stopped ticker sends none)
TickerFire(l) ==
    /\ loop[l] \notin {"idle", "returned"}
    /\ ~ticker[l]
    /\ ticker' = [ticker EXCEPT ![l] = TRUE]
    /\ UNCHANGED <<mu, ctxDone, loop, sink, stopRequested>>
    /\ AuditFrame

\* the owner stops: it calls every cancel function it holds (the deferred
\* cancel() of the test); context.Background() gives it none
Stop ==
    /\ ~stopRequested
    /\ stopRequested' = TRUE
    /\ ctxDone' = [c \in Contexts |-> IF HasCancel(c) THEN TRUE ELSE ctxDone[c]]
    /\ UNCHANGED <<mu, ticker, loop, sink>>
    /\ AuditFrame

\* lines 188-189: the select takes ctx.Done() and the function returns; the
\* deferred ticker.Stop() runs
AuditReturn(l) ==
    /\ loop[l] = "select"
    /\ CtxDone(l)
    /\ loop' = [loop EXCEPT ![l] = "returned"]
    /\ ticker' = [ticker EXCEPT ![l] = FALSE]
    /\ UNCHANGED <<mu, ctxDone, sink, stopRequested>>
    /\ AuditFrame

\* line 190: the select takes the tick
AuditTick(l) ==
    /\ loop[l] = "select"
    /\ ticker[l]
    /\ ticker' = [ticker EXCEPT ![l] = FALSE]
    /\ loop' = [loop EXCEPT ![l] = "verify"]
    /\ UNCHANGED <<mu, ctxDone, sink, stopRequested>>
    /\ AuditFrame

\* lines 191, 202: VerifyLedgerBalance is entered, l.mu.RLock()
AuditRLock(l) ==
    /\ loop[l] = "verify"
    /\ CanRLock
    /\ mu' = [mu EXCEPT !.readers = @ \cup {GoroutineOf(l)}]
    /\ loop' = [loop EXCEPT ![l] = "read"]
    /\ UNCHANGED <<ctxDone, ticker, sink, stopRequested>>
    /\ AuditFrame

\* lines 203-228 and 191-196: the sums are read, the deferred RUnlock runs
\* and an error is logged
AuditRead(l) ==
    /\ loop[l] = "read"
    /\ \E err \in VerifyLedgerBalanceErrors(accounts) :
          /\ sink' = IF err = Nil THEN sink ELSE [sink EXCEPT ![l] = err]
          /\ loop' = [loop EXCEPT ![l] = AfterAudit(err)]
    /\ mu' = [mu EXCEPT !.readers = @ \ {GoroutineOf(l)}]
    /\ UNCHANGED <<ctxDone, ticker, stopRequested>>
    /\ AuditFrame

\* the foreground calls
AuditCreateAccount ==
    CanLock /\ \E account \in AuditAccounts : CreateAccount(account)

AuditRecordTransaction ==
    CanLock /\ RecordTransactionCall(AuditTransfer)

AuditGetAccountBalance ==
    CanRLock /\ GetAccountBalance(AuditTransfer.DebitAccount)

LoopStep(l) ==
    \/ AuditReturn(l)
    \/ AuditTick(l)
    \/ AuditRLock(l)
    \/ AuditRead(l)

NextAudit ==
    \/ \E l \in Loops : LoopStep(l)
    \/ \E l \in Loops : TickerFire(l)
    \/ Stop
    \/ AuditCreateAccount
    \/ AuditRecordTransaction
    \/ AuditGetAccountBalance

\* each loop is a goroutine the scheduler keeps running, and a select with
\* several ready cases picks among them at random, so that a case that is
\* ready again and again is taken in the end
FairAudit ==
    \A l \in Loops : WF_vars(LoopStep(l)) /\ SF_vars(AuditReturn(l))

SpecAudit == InitAudit /\ [][NextAudit]_vars /\ FairAudit

----------------------------------------------------------------------------
(* CreateAccount (ledger.go 36-81) statement by statement, with the lock of *)
(* the currency validator that IsValid takes (currency_validator.go 71-80), *)
(* next to the other foreground calls and the audit loop of NewLedger.      *)

LockAccount(id, currency, amount, balanceCurrency) ==
    [ID |-> id, Name |-> "Cash", Type |-> TypeOf(id), Currency |-> currency,
     Balance |-> Money(amount, balanceCurrency), CreateDateTime |-> 0]

\* the calls a goroutine can be given, in a fixed order: a create that
\* succeeds unless another goroutine made the account first, a create with an
\* unknown currency, a transfer and a query that fail while 1001 is absent
LockCalls ==
    << [op |-> "CreateAccount", arg |-> LockAccount("1001", "USD", 20, "USD")],
       [op |-> "CreateAccount", arg |-> LockAccount("2001", "XXX", 0, "XXX")],
       [op |-> "RecordTransaction", arg |-> ConcTransfer("1001", "1001")],
       [op |-> "GetAccountBalance", arg |-> "1001"] >>

\* NewLedger has returned and every goroutine is about to make its call
InitLocks ==
    /\ accounts = <<>>
    /\ transactions = <<>>
    /\ now = 0
    /\ opening = <<>>
    /\ lastOp = "NewLedger"
    /\ lastErr = Nil
    /\ lastVal = NoValue
    /\ response = NoResponse
    /\ mu = [writer |-> 0, readers |-> {}]
    /\ pc = [w \in Workers |-> "start"]
    /\ \E pick \in [Workers -> 1..Len(LockCalls)] :
          /\ \A w \in Workers : w + 1 \in Workers => pick[w] <= pick[w + 1]
          /\ call = [w \in Workers |-> LockCalls[pick[w]]]
    /\ local = [w \in Workers |-> NoLocal]
    /\ cvmu = [writer |-> 0, readers |-> {}]
    /\ AuditStart

\* variant: Unlock is written before the last return only, an error return
\* leaves without it
AfterCreateAccountReturnNoDefer(err) ==
    IF err = Nil THEN "unlock" ELSE "done"

\* ledger.go 39: defer l.mu.Unlock() runs at every return of CreateAccount
AfterCreateAccountReturn(err) == "unlock"

\* ledger.go 38: l.mu.Lock()
CreateAccountLock(w) ==
    /\ pc[w] = "start"
    /\ call[w].op = "CreateAccount"
    /\ CanLock
    /\ mu' = [mu EXCEPT !.writer = w]
    /\ pc' = [pc EXCEPT ![w] = "exists"]
    /\ UNCHANGED <<call, local, cvmu>>
    /\ UNCHANGED ledgerVars
    /\ UNCHANGED callVars
    /\ UNCHANGED auditVars

\* ledger.go 42-45: the lookup of the identifier
CreateAccountExists(w) ==
    LET err == IF AccountExists(accounts, call[w].arg.ID)
               THEN Err("DuplicateAccount", <<call[w].arg.ID>>)
               ELSE Nil
    IN  /\ pc[w] = "exists"
        /\ local' = [local EXCEPT ![w].err = err]
        /\ pc' = [pc EXCEPT ![w] = IF err = Nil THEN "isValid"
                                   ELSE AfterCreateAccountReturn(err)]
        /\ UNCHANGED <<mu, call, cvmu>>
        /\ UNCHANGED ledgerVars
        /\ UNCHANGED callVars
        /\ UNCHANGED auditVars

\* cv.mu.RLock() returns once no goroutine holds cv.mu in write mode
CanRLockValidator == cvmu.writer = 0

\* ledger.go 48, currency_validator.go 73: IsValid is entered, cv.mu.RLock()
IsValidRLock(w) ==
    /\ pc[w] = "isValid"
    /\ CanRLockValidator
    /\ cvmu' = [cvmu EXCEPT !.readers = @ \cup {w}]
    /\ pc' = [pc EXCEPT ![w] = "isValidRead"]
    /\ UNCHANGED <<mu, call, local>>
    /\ UNCHANGED ledgerVars
    /\ UNCHANGED callVars
    /\ UNCHANGED auditVars

\* currency_validator.go 74-79 and ledger.go 48-54: the set is read, the
\* deferred cv.mu.RUnlock() runs and CreateAccount returns on an unknown code
IsValidReturn(w) ==
    LET err == IF IsValid(call[w].arg.Currency) THEN Nil
               ELSE Err("InvalidCurrency", <<call[w].arg.Currency>>)
    IN  /\ pc[w] = "isValidRead"
        /\ cvmu' = [cvmu EXCEPT !.readers = @ \ {w}]
        /\ local' = [local EXCEPT ![w].err = err]
        /\ pc' = [pc EXCEPT ![w] = IF err = Nil THEN "store"
                                   ELSE AfterCreateAccountReturn(err)]
        /\ UNCHANGED <<mu, call>>
        /\ UNCHANGED ledgerVars
        /\ UNCHANGED callVars
        /\ UNCHANGED auditVars

\* ledger.go 57-81: the balance is normalised or compared, the account is
\* stamped and stored
CreateAccountStore(w) ==
    LET account == call[w].arg
        err == CreateAccountError(accounts, account)
        stored == StoredAccount(account, now)
    IN  /\ pc[w] = "store"
        /\ local' = [local EXCEPT ![w].err = err]
        /\ IF err = Nil
           THEN /\ accounts' = PutAccount(accounts, stored)
                /\ opening' = [id \in DOMAIN opening \cup {account.ID} |->
                                 IF id = account.ID THEN stored.Balance.Amount
                                 ELSE opening[id]]
           ELSE UNCHANGED <<accounts, opening>>
        /\ pc' = [pc EXCEPT ![w] = AfterCreateAccountReturn(err)]
        /\ UNCHANGED <<transactions, now>>
        /\ UNCHANGED <<mu, call, cvmu>>
        /\ UNCHANGED callVars
        /\ UNCHANGED auditVars

\* the steps of goroutine w
WorkerStep(w) ==
    \/ CreateAccountLock(w)
    \/ CreateAccountExists(w)
    \/ IsValidRLock(w)
    \/ IsValidReturn(w)
    \/ CreateAccountStore(w)
    \/ Lock(w)
    \/ RecordTransactionCheck(w)
    \/ RecordTransactionDebit(w)
    \/ RecordTransactionDebitStore(w)
    \/ RecordTransactionCredit(w)
    \/ RecordTransactionCreditStore(w)
    \/ RecordTransactionVerify(w)
    \/ RecordTransactionAppend(w)
    \/ Unlock(w)
    \/ RLock(w)
    \/ GetAccountBalanceRead(w)
    \/ RUnlock(w)

\* the steps of the audit loop NewLedger started; its context is never done
AuditorStep ==
    \/ AuditTick("engine")
    \/ AuditRLock("engine")
    \/ AuditRead("engine")

NextLocks ==
    \/ \E w \in Workers : WorkerStep(w)
    \/ AuditorStep
    \/ TickerFire("engine")

\* the scheduler keeps every goroutine running; sync.RWMutex queues its
\* waiters (a waiting writer holds back new readers, a mutex in starvation
\* mode is handed over first in first out), so a goroutine that finds the lock
\* free again and again gets it in the end
FairLocks ==
    /\ \A w \in Workers : SF_vars(WorkerStep(w))
    /\ SF_vars(AuditorStep)

SpecLocks == InitLocks /\ [][NextLocks]_vars /\ FairLocks

----------------------------------------------------------------------------
(* Concurrent CreateAccount and RecordTransaction calls, statement by       *)
(* statement, to be compared with the same calls run one at a time.         *)

\* the calls a goroutine can be given, in a fixed order: the second account
\* is created, value is moved between the two accounts in both directions,
\* a balance is read
RefineCalls ==
    << [op |-> "CreateAccount", arg |-> LockAccount("2001", "USD", 0, "USD")],
       [op |-> "RecordTransaction", arg |-> ConcTransfer("1001", "2001")],
       [op |-> "RecordTransaction", arg |-> ConcTransfer("2001", "1001")],
       [op |-> "GetAccountBalance", arg |-> "2001"] >>

\* CreateAccount of 1001 with 20 USD has returned and every goroutine is
\* about to make its call
InitRefine ==
    /\ accounts = PutAccount(<<>>, StoredAccount(
                      LockAccount("1001", "USD", 20, "USD"), 0))
    /\ transactions = <<>>
    /\ now = 0
    /\ opening = [id \in {"1001"} |-> 20]
    /\ lastOp = "CreateAccount"
    /\ lastErr = Nil
    /\ lastVal = NoValue
    /\ response = NoResponse
    /\ mu = [writer |-> 0, readers |-> {}]
    /\ pc = [w \in Workers |-> "start"]
    /\ \E pick \in [Workers -> 1..Len(RefineCalls)] :
          /\ \A w \in Workers : w + 1 \in Workers => pick[w] <= pick[w + 1]
          /\ call = [w \in Workers |-> RefineCalls[pick[w]]]
    /\ local = [w \in Workers |-> NoLocal]
    /\ cvmu = [writer |-> 0, readers |-> {}]
    /\ AuditStart

NextRefine == \E w \in Workers : WorkerStep(w)

SpecRefine == InitRefine /\ [][NextRefine]_vars

----------------------------------------------------------------------------
(* The same concurrent calls with the clock running and with timestamps     *)
(* filled in by the caller (time.Now() is read at ledger.go 73 and 141).    *)

\* the calls of RefineCalls, each submitted with a timestamp of the caller's
\* that the clock never shows
StampCalls ==
    << [op |-> "CreateAccount",
        arg |-> [LockAccount("2001", "USD", 0, "USD") EXCEPT
                    !.CreateDateTime = -1]],
       [op |-> "RecordTransaction",
        arg |-> [ConcTransfer("1001", "2001") EXCEPT !.DateTime = -1]],
       [op |-> "RecordTransaction",
        arg |-> [ConcTransfer("2001", "1001") EXCEPT !.DateTime = -1]],
       [op |-> "GetAccountBalance", arg |-> "2001"] >>

\* CreateAccount of 1001 with 20 USD has returned and every goroutine is
\* about to make its call
InitStamps ==
    /\ accounts = PutAccount(<<>>, StoredAccount(
                      LockAccount("1001", "USD", 20, "USD"), 0))
    /\ transactions = <<>>
    /\ now = 0
    /\ opening = [id \in {"1001"} |-> 20]
    /\ lastOp = "CreateAccount"
    /\ lastErr = Nil
    /\ lastVal = NoValue
    /\ response = NoResponse
    /\ mu = [writer |-> 0, readers |-> {}]
    /\ pc = [w \in Workers |-> "start"]
    /\ \E pick \in [Workers -> 1..Len(StampCalls)] :
          /\ \A w \in Workers : w + 1 \in Workers => pick[w] <= pick[w + 1]
          /\ call = [w \in Workers |-> StampCalls[pick[w]]]
    /\ local = [w \in Workers |-> NoLocal]
    /\ cvmu = [writer |-> 0, readers |-> {}]
    /\ AuditStart

NextStamps ==
    \/ \E w \in Workers : WorkerStep(w)
    \/ Tick

SpecStamps == InitStamps /\ [][NextStamps]_vars

----------------------------------------------------------------------------
(* A client that reads the balance of 1001 and then, in a second call, the  *)
(* balance of 2001, while other goroutines move value between the two.      *)

\* the calls a goroutine can be given, in a fixed order
ReadsCalls ==
    << [op |-> "GetAccountBalance", arg |-> "1001"],
       [op |-> "GetAccountBalance", arg |-> "2001"],
       [op |-> "RecordTransaction", arg |-> ConcTransfer("1001", "2001")],
       [op |-> "RecordTransaction", arg |-> ConcTransfer("2001", "1001")] >>

\* 1001 holds 20 and 2001 holds nothing; every goroutine has its call
InitReads ==
    /\ accounts = OpenedWith(20, 0)
    /\ opening = [id \in AccountIDs |-> IF id = "1001" THEN 20 ELSE 0]
    /\ transactions = <<>>
    /\ now = 0
    /\ lastOp = "CreateAccount"
    /\ lastErr = Nil
    /\ lastVal = NoValue
    /\ response = NoResponse
    /\ mu = [writer |-> 0, readers |-> {}]
    /\ pc = [w \in Workers |-> "start"]
    /\ \E pick \in [Workers -> 1..Len(ReadsCalls)] :
          /\ \A w \in Workers : w + 1 \in Workers => pick[w] <= pick[w + 1]
          /\ call = [w \in Workers |-> ReadsCalls[pick[w]]]
    /\ local = [w \in Workers |-> NoLocal]
    /\ cvmu = [writer |-> 0, readers |-> {}]
    /\ AuditStart

\* the client makes its second call, the read of 2001, once its reads of 1001
\* have returned
ClientMayCall(w) ==
    call[w] = ReadsCalls[2] =>
       \A v \in Workers : call[v] = ReadsCalls[1] => pc[v] = "done"

\* ledger.go 152: l.mu.RLock(), in a call the client is ready to make
ClientRLock(w) ==
    /\ ClientMayCall(w)
    /\ RLock(w)

ReadsStep(w) ==
    \/ Lock(w)
    \/ RecordTransactionCheck(w)
    \/ RecordTransactionDebit(w)
    \/ RecordTransactionDebitStore(w)
    \/ RecordTransactionCredit(w)
    \/ RecordTransactionCreditStore(w)
    \/ RecordTransactionVerify(w)
    \/ RecordTransactionAppend(w)
    \/ Unlock(w)
    \/ ClientRLock(w)
    \/ GetAccountBalanceRead(w)
    \/ RUnlock(w)

NextReads == \E w \in Workers : ReadsStep(w)

SpecReads == InitReads /\ [][NextReads]_vars

----------------------------------------------------------------------------
(* The HTTP handlers (api/handlers.go 12-98) in front of the engine. A      *)
(* request body is the text the client sent: text that is no JSON, or the   *)
(* JSON of an account or of a transaction, whose amounts are decimal        *)
(* strings read by Money.UnmarshalJSON (models/money.go 24-45).             *)

Digits == <<"0", "1", "2", "3", "4", "5", "6", "7", "8", "9">>

\* money.go 19: m.Amount.String(), for the amounts the model reaches
DecimalString(v) ==
    IF v < 0 THEN "-" \o Digits[1 - v] ELSE Digits[v + 1]

\* money.go 33: the texts decimal.NewFromString reads, with their amounts
DecimalValue ==
    [text \in {DecimalString(v) : v \in -9..9} |->
        CHOOSE v \in -9..9 : DecimalString(v) = text]

\* money.go 33: decimal.NewFromString(temp.Amount) succeeds
ParsesAsDecimal(text) == text \in DOMAIN DecimalValue

\* money.go 33: the amount decimal.NewFromString gives
ParsedDecimal(text) == DecimalValue[text]

\* money.go 24-45: the error of Money.UnmarshalJSON
UnmarshalMoneyError(amount, currency) ==
    IF ~ParsesAsDecimal(amount) THEN Err("Decode", <<"invalid amount format">>)
    ELSE IF currency = "" THEN Err("Decode", <<"currency is required">>)
    ELSE Nil

\* money.go 14-22: Money.MarshalJSON
MoneyJSON(m) == [amount |-> DecimalString(m.Amount), currency |-> m.Currency]

MalformedBody == [kind |-> "invalid json"]

AccountBodies ==
    {MalformedBody} \cup
    [kind : {"account"}, id : AccountIDs, name : AccountNames,
     currency : {"USD", "XXX"}, amount : {"0", "1", "x"},
     balanceCurrency : {"USD", "EUR", ""}]

TransactionBodies ==
    {MalformedBody} \cup
    [kind : {"transaction"}, id : TxIDs, debit : AccountIDs,
     credit : AccountIDs, amount : {"1", "x"}, currency : {"USD", ""}]

\* handlers.go 15, 46: the error of json.NewDecoder(r.Body).Decode
DecodeError(body) ==
    IF body.kind = "invalid json" THEN Err("Decode", <<"invalid character">>)
    ELSE IF body.kind = "account"
    THEN UnmarshalMoneyError(body.amount, body.balanceCurrency)
    ELSE UnmarshalMoneyError(body.amount, body.currency)

\* handlers.go 14-15: the models.Account the decoder fills
DecodedAccount(body) ==
    [ID |-> body.id, Name |-> body.name, Type |-> TypeOf(body.id),
     Currency |-> body.currency,
     Balance |-> Money(ParsedDecimal(body.amount), body.balanceCurrency),
     CreateDateTime |-> 0]

\* handlers.go 45-46: the models.Transaction the decoder fills
DecodedTransaction(body) ==
    [ID |-> body.id, DateTime |-> 0, Description |-> "transfer",
     DebitAccount |-> body.debit, CreditAccount |-> body.credit,
     Amount |-> Money(ParsedDecimal(body.amount), body.currency)]

\* handlers.go 97: the JSON of a logged transaction
TransactionJSON(tx) == [tx EXCEPT !.Amount = MoneyJSON(tx.Amount)]

\* handlers.go 35, 63, 82: http.Error writes the error's text; nothing is
\* written when there is no error
ErrorBody(err) == IF err = Nil THEN <<>> ELSE <<err>>

\* handlers.go 27, 55: the body could not be decoded; the engine is not called
BadRequest(err) ==
    /\ response' = [status |-> 400, body |-> <<err>>, engineCalls |-> 0]
    /\ UNCHANGED <<lastOp, lastErr, lastVal>>
    /\ UNCHANGED ledgerVars
    /\ UNCHANGED concVars
    /\ UNCHANGED auditVars

\* variant: the handler answers 200 when the engine stored the account
CreatedStatusOK(err) == IF err = Nil THEN 200 ELSE 400

\* handlers.go 35, 40, 63, 68: http.StatusBadRequest with the error's text,
\* or http.StatusCreated
CreatedStatus(err) == IF err = Nil THEN 201 ELSE 400

\* handlers.go 12-41
CreateAccountHandler(body) ==
    IF DecodeError(body) # Nil
    THEN BadRequest(DecodeError(body))
    ELSE /\ LedgerCreateAccount(DecodedAccount(body))
         /\ response' = [status |-> CreatedStatus(lastErr'),
                         body |-> ErrorBody(lastErr'), engineCalls |-> 1]

\* handlers.go 43-69
RecordTransactionHandler(body) ==
    IF DecodeError(body) # Nil
    THEN BadRequest(DecodeError(body))
    ELSE /\ LedgerRecordTransaction(DecodedTransaction(body))
         /\ response' = [status |-> CreatedStatus(lastErr'),
                         body |-> ErrorBody(lastErr'), engineCalls |-> 1]

\* handlers.go 71-88: no WriteHeader on the success path, the first write
\* sends 200
GetBalanceHandler(accountID) ==
    /\ LedgerGetAccountBalance(accountID)
    /\ response' = IF lastErr' # Nil
                   THEN [status |-> 404, body |-> ErrorBody(lastErr'),
                         engineCalls |-> 1]
                   ELSE [status |-> 200,
                         body |-> <<[balance |-> MoneyJSON(lastVal')]>>,
                         engineCalls |-> 1]

\* handlers.go 90-98
GetTransactionHistoryHandler(accountID) ==
    /\ LedgerGetTransactionHistory(accountID)
    /\ response' = [status |-> 200,
                    body |-> <<[k \in 1..Len(lastVal') |->
                                   TransactionJSON(lastVal'[k])]>>,
                    engineCalls |-> 1]

\* server.go 28: POST /transactions, served while the log is below its cap
PostTransaction(body) ==
    /\ Len(transactions) < MaxTx
    /\ RecordTransactionHandler(body)

\* server.go 26-31: the routes
NextHTTP ==
    \/ \E body \in AccountBodies : CreateAccountHandler(body)
    \/ \E body \in TransactionBodies : PostTransaction(body)
    \/ \E accountID \in AccountIDs : GetBalanceHandler(accountID)
    \/ \E accountID \in AccountIDs : GetTransactionHistoryHandler(accountID)

SpecHTTP == Init /\ [][NextHTTP]_vars

----------------------------------------------------------------------------
(* Vocabulary of the properties *)

\* the step is a RecordTransaction(tx) call whose two accounts are stored
TransferCall(tx) ==
    /\ RecordTransaction(tx)
    /\ tx.DebitAccount \in DOMAIN accounts
    /\ tx.CreditAccount \in DOMAIN accounts

\* the total of the balances held in currency curr
RECURSIVE TotalIn(_, _, _)
TotalIn(accts, ids, curr) ==
    IF ids = {} THEN 0
    ELSE LET id == CHOOSE i \in ids : TRUE
         IN  TotalIn(accts, ids \ {id}, curr)
               + (IF accts[id].Currency = curr
                  THEN accts[id].Balance.Amount ELSE 0)

CurrencyTotal(accts, curr) == TotalIn(accts, DOMAIN accts, curr)

\* every currency's balances sum to zero
ZeroSum(accts) == \A curr \in AccountCurrencies : CurrencyTotal(accts, curr) = 0

LastTransaction == transactions[Len(transactions)]

Returned(op, kind) == lastOp = op /\ lastErr.kind = kind

----------------------------------------------------------------------------
(* Properties of RecordTransaction *)

\* C1: every RecordTransaction call that names two stored accounts, whether it
\* succeeds or fails, leaves the sum of the debit account's balance and the
\* credit account's balance as it was before the call.
C1_ValueConserved ==
    [][lastOp' = "RecordTransaction" =>
         \A tx \in TransactionInputs :
            TransferCall(tx) =>
               BalanceOf(accounts', tx.DebitAccount)
                 + BalanceOf(accounts', tx.CreditAccount)
               = BalanceOf(accounts, tx.DebitAccount)
                 + BalanceOf(accounts, tx.CreditAccount)]_vars

\* a transfer of a positive amount between two different accounts committed
C1_Witness ==
    /\ Returned("RecordTransaction", "nil")
    /\ Len(transactions) > 0
    /\ LastTransaction.DebitAccount # LastTransaction.CreditAccount
    /\ LastTransaction.Amount.Amount > 0
    /\ BalanceOf(accounts, LastTransaction.CreditAccount) > 0

\* C2: for every currency, the sum of the balances of the accounts of that
\* currency is unchanged by every RecordTransaction call (successful or not)
\* and by every other step, except that a successful CreateAccount of an
\* account in that currency raises it by exactly the declared opening amount.
C2_CurrencyTotals ==
    [][\A curr \in AccountCurrencies :
          IF lastOp' = "CreateAccount" /\ lastErr'.kind = "nil"
          THEN \A account \in AccountInputs :
                  CreateAccount(account) =>
                     CurrencyTotal(accounts', curr)
                       = CurrencyTotal(accounts, curr)
                           + (IF account.Currency = curr
                              THEN account.Balance.Amount ELSE 0)
          ELSE CurrencyTotal(accounts', curr) = CurrencyTotal(accounts, curr)
      ]_vars

\* two accounts of one currency hold a non-zero total after a committed transfer
C2_Witness ==
    /\ Returned("RecordTransaction", "nil")
    /\ DOMAIN accounts = AccountIDs
    /\ accounts["1001"].Currency = accounts["2001"].Currency
    /\ CurrencyTotal(accounts, accounts["1001"].Currency) = 2
    /\ BalanceOf(accounts, "1001") = 0

\* C3: when every currency's balances sum to zero, they still do after any
\* RecordTransaction call, committed or rejected, and VerifyLedgerBalance
\* then returns no error.
C3_BalancedStaysBalanced ==
    [][(lastOp' = "RecordTransaction" /\ ZeroSum(accounts)) =>
          /\ ZeroSum(accounts')
          /\ VerifyLedgerBalanceErrors(accounts') = {Nil}]_vars

\* accounts opened with 1 and -1 in one currency, a transfer committed, and
\* the audit that followed returned no error
C3_Witness ==
    /\ Returned("VerifyLedgerBalance", "nil")
    /\ DOMAIN accounts = AccountIDs
    /\ opening["1001"] = 1 /\ opening["2001"] = -1
    /\ accounts["1001"].Currency = accounts["2001"].Currency
    /\ Len(transactions) > 0
    /\ BalanceOf(accounts, "1001") # opening["1001"]

\* C6 as stated: a RecordTransaction call whose debit account holds less than
\* the amount fails with InsufficientFunds and leaves both balances unchanged.
C6_AlwaysInsufficientFunds ==
    [][lastOp' = "RecordTransaction" =>
         \A tx \in TransactionInputs :
            (TransferCall(tx)
               /\ BalanceOf(accounts, tx.DebitAccount) < tx.Amount.Amount) =>
               /\ lastErr'.kind = "InsufficientFunds"
               /\ accounts' = accounts]_vars

\* C6, amended: a RecordTransaction call whose debit account holds less than
\* the amount always fails and leaves both balances (and the log) unchanged;
\* the error is InsufficientFunds when the credit account is stored too and
\* the transaction's currency is that of both accounts, and otherwise the
\* error of the earlier check (AccountNotFound for an absent credit account,
\* else CurrencyMismatch).
C6_InsufficientFundsInOrder ==
    [][lastOp' = "RecordTransaction" =>
         \A tx \in TransactionInputs :
            (RecordTransaction(tx)
               /\ tx.DebitAccount \in DOMAIN accounts
               /\ BalanceOf(accounts, tx.DebitAccount) < tx.Amount.Amount) =>
               /\ accounts' = accounts
               /\ transactions' = transactions
               /\ lastErr'.kind =
                    IF tx.CreditAccount \notin DOMAIN accounts
                    THEN "AccountNotFound"
                    ELSE IF \E id \in {tx.DebitAccount, tx.CreditAccount} :
                               accounts[id].Currency # tx.Amount.Currency
                    THEN "CurrencyMismatch"
                    ELSE "InsufficientFunds"]_vars

\* a transfer between two stored accounts of one currency was refused for
\* lack of funds, the debit account holding nothing
C6_Witness ==
    /\ Returned("RecordTransaction", "InsufficientFunds")
    /\ DOMAIN accounts = AccountIDs
    /\ accounts["1001"].Currency = accounts["2001"].Currency
    /\ lastErr.detail = <<"1001">>
    /\ BalanceOf(accounts, "1001") = 0
    /\ BalanceOf(accounts, "2001") = 1
    /\ transactions = <<>>

\* C7 as stated: accounts stored, currencies equal, debit balance at least the
\* amount: the call succeeds, the debit account's balance becomes its previous
\* balance minus the amount and the credit account's its previous balance plus
\* the amount, for any two identifiers, equal or not.
C7_TransferAppliedAnyIds ==
    [][lastOp' = "RecordTransaction" =>
         \A tx \in TransactionInputs :
            (TransferCall(tx)
               /\ accounts[tx.DebitAccount].Currency = tx.Amount.Currency
               /\ accounts[tx.CreditAccount].Currency = tx.Amount.Currency
               /\ BalanceOf(accounts, tx.DebitAccount) >= tx.Amount.Amount) =>
               /\ lastErr'.kind = "nil"
               /\ BalanceOf(accounts', tx.DebitAccount)
                    = BalanceOf(accounts, tx.DebitAccount) - tx.Amount.Amount
               /\ BalanceOf(accounts', tx.CreditAccount)
                    = BalanceOf(accounts, tx.CreditAccount) + tx.Amount.Amount
      ]_vars

\* C7, amended: under the same conditions the call succeeds; when the debit
\* and credit identifiers differ, the debit account's balance becomes its
\* previous balance minus the amount and the credit account's its previous
\* balance plus the amount; when they name the same account, that account's
\* balance is unchanged.
C7_TransferApplied ==
    [][lastOp' = "RecordTransaction" =>
         \A tx \in TransactionInputs :
            (TransferCall(tx)
               /\ accounts[tx.DebitAccount].Currency = tx.Amount.Currency
               /\ accounts[tx.CreditAccount].Currency = tx.Amount.Currency
               /\ BalanceOf(accounts, tx.DebitAccount) >= tx.Amount.Amount) =>
               /\ lastErr'.kind = "nil"
               /\ IF tx.DebitAccount # tx.CreditAccount
                  THEN /\ BalanceOf(accounts', tx.DebitAccount)
                            = BalanceOf(accounts, tx.DebitAccount)
                                - tx.Amount.Amount
                       /\ BalanceOf(accounts', tx.CreditAccount)
                            = BalanceOf(accounts, tx.CreditAccount)
                                + tx.Amount.Amount
                  ELSE BalanceOf(accounts', tx.DebitAccount)
                            = BalanceOf(accounts, tx.DebitAccount)
               /\ \A id \in DOMAIN accounts \ {tx.DebitAccount, tx.CreditAccount} :
                     BalanceOf(accounts', id) = BalanceOf(accounts, id)]_vars

\* the debit account held exactly the amount and the transfer to another
\* account committed
C7_Witness ==
    /\ Returned("RecordTransaction", "nil")
    /\ Len(transactions) = 1
    /\ LastTransaction.DebitAccount = "1001"
    /\ LastTransaction.CreditAccount = "2001"
    /\ LastTransaction.Amount.Amount = 1
    /\ opening["1001"] = 1
    /\ BalanceOf(accounts, "1001") = 0
    /\ BalanceOf(accounts, "2001") = opening["2001"] + 1

\* the state the end-to-end scenario records its transaction in: 1001 (asset)
\* and 2001 (liability) created in USD with balance 0, nothing logged
ScenarioStart ==
    /\ DOMAIN accounts = {"1001", "2001"}
    /\ accounts["1001"].Type = "asset"
    /\ accounts["2001"].Type = "liability"
    /\ \A id \in {"1001", "2001"} :
          /\ accounts[id].Currency = "USD"
          /\ accounts[id].Balance = Money(0, "USD")
          /\ opening[id] = 0
    /\ transactions = <<>>

\* its transaction: debit 1001, credit 2001, 500.00 USD
ScenarioTransaction(tx) ==
    /\ tx.DebitAccount = "1001"
    /\ tx.CreditAccount = "2001"
    /\ tx.Amount = Money(500, "USD")

\* C8 as stated: the scenario's transaction is recorded; GetAccountBalance then
\* returns -500.00 USD for 1001 and +500.00 USD for 2001, and
\* GetTransactionHistory(1001) returns exactly that transaction.
C8_ScenarioRecorded ==
    [][(ScenarioStart /\ lastOp' = "RecordTransaction") =>
         \A tx \in TransactionInputs :
            (RecordTransaction(tx) /\ ScenarioTransaction(tx)) =>
               /\ lastErr'.kind = "nil"
               /\ GetAccountBalanceError(accounts', "1001") = Nil
               /\ GetAccountBalanceValue(accounts', "1001") = Money(-500, "USD")
               /\ GetAccountBalanceValue(accounts', "2001") = Money(500, "USD")
               /\ Len(History(transactions', "1001")) = 1
               /\ History(transactions', "1001")[1].ID = tx.ID]_vars

\* C8, amended: the scenario's transaction is refused with InsufficientFunds
\* (1001 holds 0, less than 500.00); GetAccountBalance then returns 0 USD for
\* 1001 and for 2001, and GetTransactionHistory(1001) returns an empty sequence.
C8_ScenarioRefused ==
    [][(ScenarioStart /\ lastOp' = "RecordTransaction") =>
         \A tx \in TransactionInputs :
            (RecordTransaction(tx) /\ ScenarioTransaction(tx)) =>
               /\ lastErr' = Err("InsufficientFunds", <<"1001">>)
               /\ GetAccountBalanceError(accounts', "1001") = Nil
               /\ GetAccountBalanceError(accounts', "2001") = Nil
               /\ GetAccountBalanceValue(accounts', "1001") = Money(0, "USD")
               /\ GetAccountBalanceValue(accounts', "2001") = Money(0, "USD")
               /\ History(transactions', "1001") = <<>>]_vars

\* the scenario's two accounts, and a transfer debiting 1001 just refused for
\* lack of funds with nothing logged
C8_Witness ==
    /\ ScenarioStart
    /\ lastOp = "RecordTransaction"
    /\ lastErr = Err("InsufficientFunds", <<"1001">>)
    /\ History(transactions, "1001") = <<>>

\* C9: RecordTransaction fails with AccountNotFound when the debit or the
\* credit identifier is not stored; the error names the debit account when it
\* is absent (also when both are), the credit account otherwise; whatever the
\* currency and the amount of the transaction; nothing is changed.
C9_AccountNotFoundFirst ==
    [][lastOp' = "RecordTransaction" =>
         \A tx \in TransactionInputs :
            (RecordTransaction(tx)
               /\ \/ tx.DebitAccount \notin DOMAIN accounts
                  \/ tx.CreditAccount \notin DOMAIN accounts) =>
               /\ lastErr'.kind = "AccountNotFound"
               /\ lastErr'.detail =
                    IF tx.DebitAccount \notin DOMAIN accounts
                    THEN <<"debit", tx.DebitAccount>>
                    ELSE <<"credit", tx.CreditAccount>>
               /\ accounts' = accounts
               /\ transactions' = transactions]_vars

\* only 2001 is stored and a transfer from 1001 to 1001 was refused for the
\* debit account
C9_Witness ==
    /\ Returned("RecordTransaction", "AccountNotFound")
    /\ DOMAIN accounts = {"2001"}
    /\ lastErr.detail = <<"debit", "1001">>

\* every logged transaction has the currency of both accounts it names
NoMixedCurrency ==
    \A i \in 1..Len(transactions) :
       /\ transactions[i].DebitAccount \in DOMAIN accounts
       /\ transactions[i].CreditAccount \in DOMAIN accounts
       /\ accounts[transactions[i].DebitAccount].Currency
            = transactions[i].Amount.Currency
       /\ accounts[transactions[i].CreditAccount].Currency
            = transactions[i].Amount.Currency

\* C10: RecordTransaction on two stored accounts fails with CurrencyMismatch
\* whenever the transaction's currency differs from the debit account's or
\* the credit account's currency, changing nothing; and in every reachable
\* state every logged transaction has the currency of both accounts it names.
C10_CurrencyMismatch ==
    /\ []NoMixedCurrency
    /\ [][lastOp' = "RecordTransaction" =>
            \A tx \in TransactionInputs :
               (TransferCall(tx)
                  /\ \/ accounts[tx.DebitAccount].Currency # tx.Amount.Currency
                     \/ accounts[tx.CreditAccount].Currency # tx.Amount.Currency)
               => /\ lastErr'.kind = "CurrencyMismatch"
                  /\ accounts' = accounts
                  /\ transactions' = transactions]_vars

\* a USD account and a EUR account, a transfer between them refused for its
\* currency although the debit account holds the amount
C10_Witness ==
    /\ Returned("RecordTransaction", "CurrencyMismatch")
    /\ DOMAIN accounts = AccountIDs
    /\ accounts["1001"].Currency = "USD"
    /\ accounts["2001"].Currency = "EUR"
    /\ lastErr.detail = <<"USD">>
    /\ BalanceOf(accounts, "1001") = 1
    /\ BalanceOf(accounts, "2001") = 1

----------------------------------------------------------------------------
(* Properties of concurrent calls *)

\* the goroutines given a RecordTransaction call
Transferers == {w \in Workers : call[w].op = "RecordTransaction"}

\* the logged amounts that name id as credit account less those that name it
\* as debit account
RECURSIVE NetLogged(_, _)
NetLogged(log, id) ==
    IF log = <<>> THEN 0
    ELSE NetLogged(Tail(log), id)
           + (IF Head(log).CreditAccount = id
              THEN Head(log).Amount.Amount ELSE 0)
           - (IF Head(log).DebitAccount = id
              THEN Head(log).Amount.Amount ELSE 0)

\* no transfer is half applied: every balance is the opening amount plus what
\* the log moved
Settled ==
    \A id \in DOMAIN accounts :
       BalanceOf(accounts, id) = opening[id] + NetLogged(transactions, id)

\* the accounts as CreateAccount stored them
Opened ==
    [id \in DOMAIN accounts |->
        [accounts[id] EXCEPT !.Balance.Amount = opening[id]]]

\* every currency's opening amounts sum to zero
OpenedBalanced == ZeroSum(Opened)

\* C4: a read operation between its RLock and its RUnlock never sees a
\* transfer half applied (a debit without its credit or its log entry); and
\* on a ledger whose currencies sum to zero a VerifyLedgerBalance that runs
\* among concurrent transfers returns no error.
C4_TransferAtomic ==
    /\ \A r \in Workers : pc[r] = "read" => Settled
    /\ OpenedBalanced =>
          \A r \in Workers :
             (call[r].op = "VerifyLedgerBalance" /\ pc[r] \in {"runlock", "done"})
                => local[r].err = Nil

\* an audit returned no error after one transfer had committed and while
\* another goroutine was still to run its transfer
C4_Witness ==
    /\ OpenedBalanced
    /\ Len(transactions) = 1
    /\ \E r, w \in Workers :
          /\ call[r].op = "VerifyLedgerBalance"
          /\ pc[r] = "done"
          /\ local[r].err = Nil
          /\ call[w].op = "RecordTransaction"
          /\ pc[w] = "start"

\* C5: when all the concurrent RecordTransaction calls, k of them, move the
\* same positive amount a from one account A to another account B and A
\* opened with at least k*a, then once they have returned every one of them
\* succeeded and the balances are A - k*a and B + k*a, in every interleaving.
C5_ConcurrentTransfers ==
    \A A, B \in AccountIDs :
       \A a \in {call[w].arg.Amount.Amount : w \in Transferers} :
          LET k == Cardinality(Transferers)
          IN  (/\ A # B
               /\ a > 0
               /\ \A w \in Transferers :
                     /\ pc[w] = "done"
                     /\ call[w].arg.DebitAccount = A
                     /\ call[w].arg.CreditAccount = B
                     /\ call[w].arg.Amount.Amount = a
               /\ opening[A] >= k * a) =>
                 /\ \A w \in Transferers : local[w].err = Nil
                 /\ BalanceOf(accounts, A) = opening[A] - k * a
                 /\ BalanceOf(accounts, B) = opening[B] + k * a
                 /\ Len(transactions) = k

\* every goroutine moved 10 from 1001 to 2001, both opened with 1000, and
\* all have returned
C5_Witness ==
    /\ opening["1001"] = 1000 /\ opening["2001"] = 1000
    /\ \A w \in Workers :
          /\ pc[w] = "done"
          /\ call[w] = ConcCalls[1]
    /\ BalanceOf(accounts, "1001") = 1000 - 10 * NumWorkers
    /\ BalanceOf(accounts, "2001") = 1000 + 10 * NumWorkers

----------------------------------------------------------------------------
(* Properties of CreateAccount *)

\* the request a caller submits with these fields
Request(id, name, currency, amount, balanceCurrency) ==
    [ID |-> id, Name |-> name, Type |-> TypeOf(id), Currency |-> currency,
     Balance |-> Money(amount, balanceCurrency), CreateDateTime |-> 0]

\* the step leaves the account map, the log and the clock as they were
LedgerUntouched ==
    /\ accounts' = accounts
    /\ transactions' = transactions
    /\ now' = now

\* C11: a CreateAccount call whose identifier is already stored fails with
\* DuplicateAccount, whatever the other fields of the request are, and the
\* stored account (name, type, currency, balance, creation timestamp) stays
\* exactly what the first call left, also when the second call comes at a
\* later instant.
C11_DuplicateRejected ==
    [][/\ \A id \in DOMAIN accounts :
             id \in DOMAIN accounts' /\ accounts'[id] = accounts[id]
       /\ lastOp' = "CreateAccount" =>
             \A id \in DOMAIN accounts :
                \/ /\ lastErr' = Err("DuplicateAccount", <<id>>)
                   /\ accounts' = accounts
                \/ \A name \in AccountNames, currency \in AccountCurrencies,
                      amount \in OpeningAmounts,
                      balanceCurrency \in BalanceCurrencies :
                      ~CreateAccount(Request(id, name, currency, amount,
                                             balanceCurrency))]_vars

\* a second create for an identifier stored at an earlier instant was refused
C11_Witness ==
    /\ Returned("CreateAccount", "DuplicateAccount")
    /\ \E id \in DOMAIN accounts :
          /\ lastErr.detail = <<id>>
          /\ accounts[id].CreateDateTime < now
          /\ accounts[id].Balance.Amount # 0

\* C12: a CreateAccount call with a new identifier, an account currency the
\* validator accepts and a declared balance of amount zero succeeds whatever
\* currency the declared balance carries (another valid code, an invalid code
\* or none), and the stored balance is zero in the account's currency.
C12_ZeroBalanceNormalized ==
    [][lastOp' = "CreateAccount" =>
         \A id \in AccountIDs \ DOMAIN accounts :
            \A currency \in {c \in AccountCurrencies : IsValid(c)} :
               \/ /\ lastErr' = Nil
                  /\ DOMAIN accounts' = DOMAIN accounts \cup {id}
                  /\ accounts'[id].Currency = currency
                  /\ accounts'[id].Balance = Money(0, currency)
                  /\ \A other \in DOMAIN accounts :
                        accounts'[other] = accounts[other]
               \/ \A name \in AccountNames,
                     balanceCurrency \in BalanceCurrencies :
                     ~CreateAccount(Request(id, name, currency, 0,
                                            balanceCurrency))]_vars

\* an account in USD was just stored with a zero balance in USD, next to an
\* account in EUR
C12_Witness ==
    /\ Returned("CreateAccount", "nil")
    /\ \E id \in DOMAIN accounts :
          /\ accounts[id].Currency = "USD"
          /\ accounts[id].Balance = Money(0, "USD")
          /\ opening[id] = 0
          /\ transactions = <<>>
          /\ \E other \in DOMAIN accounts : accounts[other].Currency = "EUR"

\* C13 as stated: a CreateAccount call with a non-zero declared balance whose
\* currency differs from the account's currency fails with CurrencyMismatch
\* in every case, and changes nothing.
C13_AlwaysCurrencyMismatch ==
    [][lastOp' = "CreateAccount" =>
         \/ lastErr'.kind = "CurrencyMismatch" /\ LedgerUntouched
         \/ \A id \in AccountIDs, name \in AccountNames,
               currency \in AccountCurrencies,
               amount \in OpeningAmounts \ {0} :
               \A balanceCurrency \in BalanceCurrencies \ {currency} :
                  ~CreateAccount(Request(id, name, currency, amount,
                                         balanceCurrency))]_vars

\* the error the three checks of CreateAccount give, in their order, to a
\* request whose non-zero balance is in another currency than the account
MismatchOutcome(id, currency) ==
    IF id \in DOMAIN accounts THEN "DuplicateAccount"
    ELSE IF ~IsValid(currency) THEN "InvalidCurrency"
    ELSE "CurrencyMismatch"

\* C13: a CreateAccount call with a non-zero declared balance whose currency
\* differs from the account's currency always fails and changes nothing; the
\* error is CurrencyMismatch when the identifier is new and the account's
\* currency is valid, DuplicateAccount when the identifier is stored, and
\* InvalidCurrency when the identifier is new and the account's currency is
\* not valid.
C13_CurrencyMismatchInOrder ==
    [][lastOp' = "CreateAccount" =>
         \A id \in AccountIDs, currency \in AccountCurrencies :
            \A balanceCurrency \in BalanceCurrencies \ {currency} :
               \/ /\ LedgerUntouched
                  /\ lastErr'.kind = MismatchOutcome(id, currency)
                  /\ lastErr'.kind = "CurrencyMismatch" =>
                        lastErr'.detail = <<balanceCurrency, currency>>
               \/ \A name \in AccountNames, amount \in OpeningAmounts \ {0} :
                     ~CreateAccount(Request(id, name, currency, amount,
                                            balanceCurrency))]_vars

\* a balance in EUR declared on a new account in USD was refused, and the
\* identifier is still free
C13_Witness ==
    /\ lastOp = "CreateAccount"
    /\ lastErr = Err("CurrencyMismatch", <<"EUR", "USD">>)
    /\ \E id \in AccountIDs : id \notin DOMAIN accounts

\* every stored account's currency is one the validator accepts
StoredCurrenciesValid ==
    \A id \in DOMAIN accounts : IsValid(accounts[id].Currency)

\* C14: a CreateAccount call with a new identifier whose currency the
\* validator rejects fails with InvalidCurrency and stores nothing; hence in
\* every reachable state every stored account's currency is a valid one.
C14_InvalidCurrencyRejected ==
    /\ []StoredCurrenciesValid
    /\ [][lastOp' = "CreateAccount" =>
            \A id \in AccountIDs \ DOMAIN accounts :
               \A currency \in {c \in AccountCurrencies : ~IsValid(c)} :
                  \/ /\ lastErr' = Err("InvalidCurrency", <<currency>>)
                     /\ LedgerUntouched
                  \/ \A name \in AccountNames, amount \in OpeningAmounts,
                        balanceCurrency \in BalanceCurrencies :
                        ~CreateAccount(Request(id, name, currency, amount,
                                               balanceCurrency))]_vars

\* an account in the unknown currency XXX was refused while an identifier was
\* still free
C14_Witness ==
    /\ lastOp = "CreateAccount"
    /\ lastErr = Err("InvalidCurrency", <<"XXX">>)
    /\ \E id \in AccountIDs : id \notin DOMAIN accounts
    /\ StoredCurrenciesValid

\* C15: in every reachable state the currency of every stored account's
\* balance is the account's currency: CreateAccount stores it so and no later
\* operation changes either.
C15_BalanceCurrency ==
    \A id \in DOMAIN accounts :
        accounts[id].Balance.Currency = accounts[id].Currency

\* an account created with a zero balance and an account created with a
\* non-zero balance are stored, and a transfer between them has committed
C15_Witness ==
    /\ Returned("RecordTransaction", "nil")
    /\ \E a, b \in DOMAIN accounts :
          /\ opening[a] = 0
          /\ opening[b] # 0
          /\ LastTransaction.DebitAccount = b
          /\ LastTransaction.CreditAccount = a

----------------------------------------------------------------------------
(* Properties of the queries *)

\* C16: GetAccountBalance fails with AccountNotFound exactly when the
\* identifier is not stored and otherwise returns the account's current
\* balance, amount and currency; right after a successful CreateAccount with
\* a non-zero declared balance it returns that declared balance.
C16_BalanceQuery ==
    [][/\ lastOp' = "GetAccountBalance" =>
             \A id \in AccountIDs :
                \/ /\ LedgerUntouched
                   /\ IF id \in DOMAIN accounts
                      THEN lastErr' = Nil /\ lastVal' = accounts[id].Balance
                      ELSE lastErr'.kind = "AccountNotFound"
                \/ ~GetAccountBalance(id)
       /\ (lastOp' = "CreateAccount" /\ lastErr' = Nil) =>
             \A id \in AccountIDs \ DOMAIN accounts,
                amount \in OpeningAmounts \ {0},
                balanceCurrency \in BalanceCurrencies :
                \/ /\ GetAccountBalanceError(accounts', id) = Nil
                   /\ GetAccountBalanceValue(accounts', id)
                        = Money(amount, balanceCurrency)
                \/ \A name \in AccountNames, currency \in AccountCurrencies :
                      ~CreateAccount(Request(id, name, currency, amount,
                                             balanceCurrency))]_vars

\* the balance of an account opened with 1 EUR was read back before any
\* transfer, while the other identifier was still unknown
C16_Witness ==
    /\ Returned("GetAccountBalance", "nil")
    /\ lastVal = Money(1, "EUR")
    /\ transactions = <<>>
    /\ \E id \in DOMAIN accounts :
          accounts[id].Balance = lastVal /\ opening[id] = 1
    /\ \E id \in AccountIDs : id \notin DOMAIN accounts

\* the entries of the log that name id as debit or credit account, each at
\* its place
Participating(log, id) ==
    LET Names(tx) == tx.DebitAccount = id \/ tx.CreditAccount = id
    IN  SelectSeq(log, Names)

\* C17: GetTransactionHistory(id) never fails and returns exactly the entries
\* of the log that name id as debit or credit account, in append order, each
\* once; the result is empty for an identifier that is not stored or named by
\* no entry.
C17_History ==
    [][lastOp' = "GetTransactionHistory" =>
         \A id \in AccountIDs :
            \/ /\ lastErr' = Nil
               /\ lastVal' = Participating(transactions, id)
               /\ id \notin DOMAIN accounts => lastVal' = <<>>
               /\ LedgerUntouched
            \/ ~GetTransactionHistory(id)]_vars

\* one entry of a log of two was returned, an entry in which the account is
\* both the debit and the credit account
C17_Witness ==
    /\ Returned("GetTransactionHistory", "nil")
    /\ Len(transactions) = 2
    /\ Len(lastVal) = 1
    /\ lastVal[1] = transactions[2]
    /\ lastVal[1].DebitAccount = lastVal[1].CreditAccount

\* the currencies whose balances do not sum to zero
Unbalanced(accts) ==
    {curr \in AccountCurrencies : CurrencyTotal(accts, curr) # 0}

\* C18: VerifyLedgerBalance returns LedgerUnbalanced exactly when the
\* balances of some currency do not sum to zero, and the error then names one
\* such currency with its sum; on a ledger without accounts it returns no
\* error.
C18_VerifyLedgerBalance ==
    [][lastOp' = "VerifyLedgerBalance" =>
         /\ LedgerUntouched
         /\ lastErr'.kind = "LedgerUnbalanced" <=> Unbalanced(accounts) # {}
         /\ Unbalanced(accounts) = {} => lastErr' = Nil
         /\ Unbalanced(accounts) # {} =>
               \E curr \in Unbalanced(accounts) :
                  lastErr' = Err("LedgerUnbalanced",
                                 <<curr, CurrencyTotal(accounts, curr)>>)
         /\ accounts = <<>> => lastErr' = Nil]_vars

\* two currencies are unbalanced and the error names EUR with its sum
C18_Witness ==
    /\ lastOp = "VerifyLedgerBalance"
    /\ lastErr = Err("LedgerUnbalanced", <<"EUR", -1>>)
    /\ CurrencyTotal(accounts, "USD") = 1

----------------------------------------------------------------------------
(* Properties of the log *)

\* C19: the log only grows by appending. A successful RecordTransaction
\* appends exactly one entry, at the end, equal to the submitted transaction
\* in identifier, description, debit account, credit account and amount; a
\* failed RecordTransaction appends none; no step changes, reorders or removes
\* an entry.
C19_LogAppendOnly ==
    [][/\ \/ transactions' = transactions
          \/ /\ lastOp' = "RecordTransaction"
             /\ lastErr' = Nil
             /\ Len(transactions') = Len(transactions) + 1
             /\ SubSeq(transactions', 1, Len(transactions)) = transactions
       /\ lastOp' = "RecordTransaction" =>
             \A tx \in TransactionInputs :
                \/ IF lastErr' = Nil
                   THEN /\ Len(transactions') = Len(transactions) + 1
                        /\ LET entry == transactions'[Len(transactions')]
                           IN  /\ entry.ID = tx.ID
                               /\ entry.Description = tx.Description
                               /\ entry.DebitAccount = tx.DebitAccount
                               /\ entry.CreditAccount = tx.CreditAccount
                               /\ entry.Amount = tx.Amount
                   ELSE transactions' = transactions
                \/ ~RecordTransaction(tx)]_vars

\* a second entry, different from the first, was appended behind it
C19_Witness ==
    /\ Returned("RecordTransaction", "nil")
    /\ Len(transactions) = 2
    /\ transactions[1] # transactions[2]
    /\ transactions[1].DebitAccount # transactions[2].DebitAccount

\* the identifier of tx is that of an entry of the log
Logged(tx) == \E i \in 1..Len(transactions) : transactions[i].ID = tx.ID

\* C20: transaction identifiers are not checked for uniqueness: a
\* RecordTransaction call whose identifier is that of a logged transaction
\* and which passes the account, currency and funds checks succeeds, moves
\* the amount again and appends a second entry with the same identifier.
C20_DuplicateTransactionID ==
    [][lastOp' = "RecordTransaction" =>
         \A tx \in TransactionInputs :
            (/\ Logged(tx)
             /\ tx.DebitAccount \in DOMAIN accounts
             /\ tx.CreditAccount \in DOMAIN accounts
             /\ accounts[tx.DebitAccount].Currency = tx.Amount.Currency
             /\ accounts[tx.CreditAccount].Currency = tx.Amount.Currency
             /\ accounts[tx.DebitAccount].Balance.Amount >= tx.Amount.Amount) =>
                \/ /\ lastErr' = Nil
                   /\ Len(transactions') = Len(transactions) + 1
                   /\ SubSeq(transactions', 1, Len(transactions)) = transactions
                   /\ transactions'[Len(transactions')].ID = tx.ID
                   /\ IF tx.DebitAccount = tx.CreditAccount
                      THEN accounts' = accounts
                      ELSE /\ BalanceOf(accounts', tx.DebitAccount)
                                = BalanceOf(accounts, tx.DebitAccount)
                                    - tx.Amount.Amount
                           /\ BalanceOf(accounts', tx.CreditAccount)
                                = BalanceOf(accounts, tx.CreditAccount)
                                    + tx.Amount.Amount
                \/ ~RecordTransaction(tx)]_vars

\* under one identifier 1 was moved from an account to another and then back:
\* the log holds both entries and both balances are the opening ones again
C20_Witness ==
    /\ Returned("RecordTransaction", "nil")
    /\ Len(transactions) = 2
    /\ transactions[1].ID = transactions[2].ID
    /\ transactions[1].Amount.Amount = 1
    /\ LastTransaction.Amount.Amount = 1
    /\ LastTransaction.DebitAccount # LastTransaction.CreditAccount
    /\ transactions[1].DebitAccount = LastTransaction.CreditAccount
    /\ transactions[1].CreditAccount = LastTransaction.DebitAccount
    /\ \A id \in DOMAIN accounts : BalanceOf(accounts, id) = opening[id]

----------------------------------------------------------------------------
(* Properties of the stored accounts *)

\* acc with its balance amount replaced
WithAmount(acc, amount) == [acc EXCEPT !.Balance.Amount = amount]

\* C21: no step removes a stored account or changes its identifier, name,
\* type, currency, balance currency or creation timestamp; the balance amount
\* of a stored account changes only in a successful RecordTransaction whose
\* appended entry names the account.
C21_AccountFrame ==
    [][\A id \in DOMAIN accounts :
          /\ id \in DOMAIN accounts'
          /\ WithAmount(accounts'[id], BalanceOf(accounts, id)) = accounts[id]
          /\ BalanceOf(accounts', id) # BalanceOf(accounts, id) =>
                /\ lastOp' = "RecordTransaction"
                /\ lastErr' = Nil
                /\ Len(transactions') = Len(transactions) + 1
                /\ \/ transactions'[Len(transactions')].DebitAccount = id
                   \/ transactions'[Len(transactions')].CreditAccount = id]_vars

\* after a transfer between two accounts both still carry what CreateAccount
\* stored, but for the amounts
C21_Witness ==
    /\ Returned("RecordTransaction", "nil")
    /\ LastTransaction.DebitAccount # LastTransaction.CreditAccount
    /\ \A id \in {LastTransaction.DebitAccount, LastTransaction.CreditAccount} :
          /\ BalanceOf(accounts, id) # opening[id]
          /\ accounts[id].ID = id
          /\ accounts[id].Type = TypeOf(id)

\* C22: an account created with a non-negative balance has a non-negative
\* balance in every reachable state, whatever the (signed) amounts of the
\* transactions recorded.
C22_NoOverdraft ==
    \A id \in DOMAIN accounts :
        opening[id] >= 0 => BalanceOf(accounts, id) >= 0

\* C23: the consistency check made after the two writes never triggers: in no
\* reachable state does RecordTransaction return UnbalancedTransaction, for
\* any transaction that could be submitted in that state.
C23_NeverUnbalanced ==
    /\ lastErr.kind # "UnbalancedTransaction"
    /\ \A tx \in TransactionInputs :
          RecordTransactionError(accounts, tx).kind # "UnbalancedTransaction"

\* a transfer from an account to itself has committed: both pointers name one
\* Account and the check still found a net change of zero
C23_Witness ==
    /\ Returned("RecordTransaction", "nil")
    /\ LastTransaction.DebitAccount = LastTransaction.CreditAccount
    /\ LastTransaction.Amount.Amount > 0
    /\ BalanceOf(accounts, LastTransaction.DebitAccount)
         = opening[LastTransaction.DebitAccount]

\* C30: RecordTransaction refuses a transaction whose amount is negative,
\* with an error and without changing a balance or the log.
C30_NegativeAmountRefused ==
    [][lastOp' = "RecordTransaction" =>
         \A tx \in TransactionInputs :
            tx.Amount.Amount < 0 =>
               \/ lastErr' # Nil /\ LedgerUntouched
               \/ ~RecordTransaction(tx)]_vars

----------------------------------------------------------------------------
(* Properties of the README workflow *)

DebitNormal == {"asset", "expense"}
CreditNormal == {"liability", "equity", "revenue"}

IDsOf(log) == [k \in 1..Len(log) |-> log[k].ID]

\* the four accounts are stored and the log holds the first k transactions of
\* the workflow, in order
WorkflowAt(k) ==
    /\ DOMAIN accounts = WorkflowIDs
    /\ IDsOf(transactions) = IDsOf(SubSeq(WorkflowTransactions, 1, k))

----------------------------------------------------------------------------
(* Properties of the audit loop *)

\* the context loop l was given has been cancelled
Cancelled(l) == ctxDone[CtxOf(l)]

\* C24: once the context given to PerformPeriodicBalanceCheck is cancelled
\* the loop eventually returns, and after it has returned it stays returned:
\* it takes no tick, holds no lock and runs no VerifyLedgerBalance.
C24_LoopTerminates ==
    /\ \A l \in Loops : Cancelled(l) ~> (loop[l] = "returned")
    /\ [][\A l \in Loops :
             loop[l] = "returned" =>
                /\ loop'[l] = "returned"
                /\ sink'[l] = sink[l]
                /\ GoroutineOf(l) \notin mu'.readers]_vars

\* the loop started under the cancellable context has audited an unbalanced
\* ledger and has then returned on the cancellation
C24_Witness ==
    /\ loop["caller"] = "returned"
    /\ ctxDone["WithCancel"]
    /\ sink["caller"].kind = "LedgerUnbalanced"

\* C25: once the owner of the engine has fired its cancellation signals, the
\* context of the audit loop NewLedger started is cancelled (so that the loop
\* stops).
C25_EngineLoopCancelled ==
    stopRequested => Cancelled("engine")

\* the step is one of audit loop l
StepOf(l) == loop'[l] # loop[l]

\* C26: an audit that returns LedgerUnbalanced is only logged. The loop goes
\* back to its select holding no lock and leaves it only on a cancelled
\* context; with a tick waiting it audits again; no step of a loop changes an
\* account, the log or the result of a foreground call.
C26_AuditOnlyReports ==
    /\ [][\A l \in Loops :
             StepOf(l) =>
                /\ UNCHANGED <<accounts, transactions, now>>
                /\ UNCHANGED <<lastOp, lastErr, lastVal>>
                /\ loop[l] = "read" =>
                      /\ loop'[l] = "select"
                      /\ GoroutineOf(l) \notin mu'.readers
                      /\ sink'[l] \in VerifyLedgerBalanceErrors(accounts)
                                         \cup {sink[l]}
                /\ loop'[l] = "returned" => loop[l] = "select" /\ Cancelled(l)]_vars
    /\ \A l \in Loops :
          (sink[l].kind = "LedgerUnbalanced" /\ loop[l] = "select" /\ ticker[l])
             ~> (loop[l] = "read" \/ loop[l] = "returned")

\* the loop NewLedger started has logged an unbalanced ledger and is auditing
\* again, after a foreground transfer was recorded
C26_Witness ==
    /\ sink["engine"] = Err("LedgerUnbalanced", <<"USD", 1>>)
    /\ loop["engine"] = "read"
    /\ GoroutineOf("engine") \in mu.readers
    /\ Returned("RecordTransaction", "nil")
    /\ Len(transactions) = 1

----------------------------------------------------------------------------
(* Properties of the locks *)

\* goroutine w holds the ledger lock, in either mode
HoldsLedgerLock(w) == mu.writer = w \/ w \in mu.readers

\* goroutine w holds the lock of the currency validator
HoldsValidatorLock(w) == cvmu.writer = w \/ w \in cvmu.readers

\* C27 as stated: a goroutine inside an engine operation holds the ledger
\* lock and no other lock, and holds no lock once its operation has returned
C27_OnlyTheLedgerLock ==
    \A w \in Workers :
       /\ HoldsLedgerLock(w) => ~HoldsValidatorLock(w)
       /\ pc[w] = "done" => ~HoldsLedgerLock(w) /\ ~HoldsValidatorLock(w)

\* C27, amended: the validator's lock is taken only by a goroutine that holds
\* the ledger lock in write mode and is never held in write mode, the ledger
\* lock is taken only by a goroutine that holds no lock, an operation that
\* has returned holds no lock, every invoked operation returns, and every
\* audit the loop has begun ends
C27_NoDeadlock ==
    /\ [](\A w \in Workers :
             /\ HoldsValidatorLock(w) => mu.writer = w
             /\ pc[w] = "done" => ~HoldsLedgerLock(w) /\ ~HoldsValidatorLock(w))
    /\ [](cvmu.writer = 0)
    /\ [][\A w \in Workers :
             (HoldsLedgerLock(w)' /\ ~HoldsLedgerLock(w)) =>
                /\ ~HoldsValidatorLock(w)
                /\ mu.writer = 0
                /\ mu'.writer = w => mu.readers = {}]_vars
    /\ <>(\A w \in Workers : pc[w] = "done")
    /\ (loop["engine"] = "verify") ~> (loop["engine"] = "select")

\* every kind of return of CreateAccount has happened while the auditor was
\* at work: a stored account, a duplicate and an unknown currency
C27_Witness ==
    /\ \A w \in Workers : pc[w] = "done"
    /\ "1001" \in DOMAIN accounts
    /\ \E w \in Workers : local[w].err.kind = "DuplicateAccount"
    /\ \E w \in Workers : local[w].err.kind = "InvalidCurrency"
    /\ loop["engine"] = "read"

----------------------------------------------------------------------------
(* Properties of failed calls, of the queries and of the timestamps *)

CreateAccountFailures == {"DuplicateAccount", "InvalidCurrency", "CurrencyMismatch"}

RecordTransactionFailures ==
    {"AccountNotFound", "CurrencyMismatch", "InsufficientFunds",
     "UnbalancedTransaction"}

\* C31: a CreateAccount that fails returns DuplicateAccount, InvalidCurrency
\* or CurrencyMismatch and a RecordTransaction that fails returns
\* AccountNotFound, CurrencyMismatch, InsufficientFunds or
\* UnbalancedTransaction; either leaves every account and the log as they
\* were, and the rollback that precedes UnbalancedTransaction gives back the
\* accounts of before the two balance writes.
C31_FailedCallsChangeNothing ==
    /\ [](\A tx \in TransactionInputs :
             (/\ tx.DebitAccount \in DOMAIN accounts
              /\ tx.CreditAccount \in DOMAIN accounts) =>
                Rollback(Transfer(accounts, tx), tx,
                         BalanceOf(accounts, tx.DebitAccount),
                         BalanceOf(accounts, tx.CreditAccount)) = accounts)
    /\ [][(lastOp' = "CreateAccount" /\ lastErr'.kind # "nil") =>
             /\ lastErr'.kind \in CreateAccountFailures
             /\ UNCHANGED <<accounts, transactions>>]_vars
    /\ [][(lastOp' = "RecordTransaction" /\ lastErr'.kind # "nil") =>
             /\ lastErr'.kind \in RecordTransactionFailures
             /\ UNCHANGED <<accounts, transactions>>]_vars

\* a transfer was refused for lack of funds after another had committed
C31_Witness ==
    /\ Returned("RecordTransaction", "InsufficientFunds")
    /\ Len(transactions) = 1
    /\ DOMAIN accounts = AccountIDs
    /\ BalanceOf(accounts, "2001") = 1

\* C32: in every reachable state every stored account's balance is the amount
\* it was created with, plus the amounts of the logged transactions that name
\* it as credit account, minus the amounts of those that name it as debit
\* account; a transaction that names it in both roles contributes nothing.
C32_BalancesAgreeWithLog ==
    /\ DOMAIN opening = DOMAIN accounts
    /\ \A id \in DOMAIN accounts :
          BalanceOf(accounts, id) - NetLogged(transactions, id) = opening[id]

\* two entries are logged, one of them with one account in both roles, and
\* the balance of 1001 is no longer its opening amount
C32_Witness ==
    /\ Len(transactions) = 2
    /\ \E i \in 1..2 : transactions[i].DebitAccount = transactions[i].CreditAccount
    /\ "1001" \in DOMAIN accounts
    /\ BalanceOf(accounts, "1001") # opening["1001"]

----------------------------------------------------------------------------
(* Properties of concurrent calls *)

\* goroutine w is inside RecordTransaction with a balance written and the
\* log entry not yet appended
Writing(w) ==
    mu.writer = w /\ pc[w] \in {"credit", "creditStore", "verify", "append"}

\* the accounts as the calls that have taken effect left them: the balances a
\* RecordTransaction in progress has written are not counted yet
Serial ==
    IF \E w \in Workers : Writing(w)
    THEN LET w == CHOOSE v \in Workers : Writing(v)
         IN  Rollback(accounts, call[w].arg, local[w].initialDebitBalance,
                      local[w].initialCreditBalance)
    ELSE accounts

\* the positions of a goroutine between Lock and Unlock
InsideWrite ==
    {"exists", "isValid", "isValidRead", "store", "check", "debit",
     "debitStore", "credit", "creditStore", "verify", "append", "unlock"}

\* C33: the goroutines inside CreateAccount or RecordTransaction are one at a
\* time, the one that holds the write lock; each call takes effect in a single
\* step while it holds the lock, and in that step its result, the accounts in
\* effect and the log change exactly as the call run alone on the accounts
\* and log in effect would change them (a committed transaction is appended
\* to the log in that step); no other step changes the accounts in effect,
\* the log or a result already computed.
C33_Serializable ==
    /\ [](\A w \in Workers :
             (pc[w] \in InsideWrite /\ call[w].op \notin ReadOps) => mu.writer = w)
    /\ [][\A w \in Workers :
             pc'[w] # pc[w] =>
                LET arg == call[w].arg
                IN  IF pc[w] = "append"
                    THEN /\ RecordTransactionError(Serial, arg) = Nil
                         /\ local[w].err = Nil
                         /\ Serial' = RecordTransactionAccounts(Serial, arg)
                         /\ transactions' =
                               Append(transactions, StampedTransaction(arg, now))
                    ELSE IF pc[w] = "check" /\ pc'[w] = "unlock"
                    THEN /\ local'[w].err = RecordTransactionError(Serial, arg)
                         /\ local'[w].err # Nil
                         /\ Serial' = RecordTransactionAccounts(Serial, arg)
                         /\ Serial' = Serial
                         /\ transactions' = transactions
                    ELSE IF pc[w] \in {"exists", "isValidRead", "store"}
                            /\ pc'[w] = "unlock"
                    THEN /\ local'[w].err = CreateAccountError(Serial, arg)
                         /\ Serial' =
                               IF local'[w].err = Nil
                               THEN PutAccount(Serial, StoredAccount(arg, now))
                               ELSE Serial
                         /\ transactions' = transactions
                    ELSE /\ Serial' = Serial
                         /\ transactions' = transactions
                         /\ pc[w] = "unlock" => local'[w].err = local[w].err]_vars

\* 2001 was created while transfers were waiting, value went to it and came
\* back, and every call has returned
C33_Witness ==
    /\ \A w \in Workers : pc[w] = "done"
    /\ "2001" \in DOMAIN accounts
    /\ IDsOf(transactions) = <<"tx001", "tx001">>
    /\ transactions[1].DebitAccount = "1001"
    /\ transactions[2].DebitAccount = "2001"
    /\ BalanceOf(accounts, "1001") = 20

\* the logged amounts that name id as debit account
RECURSIVE DebitsLogged(_, _)
DebitsLogged(log, id) ==
    IF log = <<>> THEN 0
    ELSE DebitsLogged(Tail(log), id)
           + (IF Head(log).DebitAccount = id THEN Head(log).Amount.Amount ELSE 0)

\* the logged amounts that name id as credit account
RECURSIVE CreditsLogged(_, _)
CreditsLogged(log, id) ==
    IF log = <<>> THEN 0
    ELSE CreditsLogged(Tail(log), id)
           + (IF Head(log).CreditAccount = id THEN Head(log).Amount.Amount ELSE 0)

\* the goroutines whose RecordTransaction has returned an error
Refused == {w \in Transferers : pc[w] = "done" /\ local[w].err # Nil}

\* C34: with concurrent transfers of positive amounts, an account opened with
\* a non-negative amount is never negative, at any statement of any
\* interleaving, and the committed transfers never debit more from it than
\* its opening amount plus the credits committed to it; a transfer that does
\* not commit returns InsufficientFunds; and when every transfer debits one
\* account A that cannot cover them all, as many commit as A can cover and
\* the others are refused.
C34_FundsCheckAtomic ==
    /\ \A A \in DOMAIN accounts :
          opening[A] >= 0 =>
             /\ BalanceOf(accounts, A) >= 0
             /\ DebitsLogged(transactions, A)
                  <= opening[A] + CreditsLogged(transactions, A)
    /\ \A w \in Refused : local[w].err.kind = "InsufficientFunds"
    /\ \A A \in AccountIDs :
          \A a \in {call[w].arg.Amount.Amount : w \in Transferers} :
             LET k == Cardinality(Transferers)
             IN  (/\ a > 0
                  /\ \A w \in Transferers :
                        /\ pc[w] = "done"
                        /\ call[w].arg.DebitAccount = A
                        /\ call[w].arg.CreditAccount # A
                        /\ call[w].arg.Amount.Amount = a
                  /\ opening[A] >= 0
                  /\ opening[A] < k * a) =>
                    /\ Len(transactions) = opening[A] \div a
                    /\ Cardinality(Refused) = k - (opening[A] \div a)
                    /\ BalanceOf(accounts, A) = opening[A] % a

\* every goroutine asked to move 10 out of 1001, which held 20: two did and
\* the others were refused
C34_Witness ==
    /\ opening["1001"] = 20
    /\ \A w \in Workers : pc[w] = "done" /\ call[w] = ConcCalls[1]
    /\ Len(transactions) = 2
    /\ Cardinality(Refused) = NumWorkers - 2
    /\ BalanceOf(accounts, "1001") = 0

----------------------------------------------------------------------------
(* Properties of the timestamps *)

\* the timestamps of the log never decrease from one entry to the next
StampsInOrder(log) ==
    \A i, j \in 1..Len(log) : i <= j => log[i].DateTime <= log[j].DateTime

\* C35: the entry a committed RecordTransaction appends carries the clock
\* reading of the step that appends it, not the timestamp it was submitted
\* with; the account a successful CreateAccount stores carries the clock
\* reading of the step that stores it, not the submitted one; and with a clock
\* that never goes back the timestamps of the log never decrease in append
\* order, however the concurrent calls and the clock interleave.
C35_EngineTimestamps ==
    /\ [](StampsInOrder(transactions))
    /\ [][Len(transactions') > Len(transactions) =>
             /\ Len(transactions') = Len(transactions) + 1
             /\ transactions'[Len(transactions')].DateTime = now
             /\ \A w \in Workers :
                   pc'[w] # pc[w] =>
                      transactions'[Len(transactions')] =
                         [call[w].arg EXCEPT !.DateTime = now]]_vars
    /\ [][\A id \in DOMAIN accounts' \ DOMAIN accounts :
             /\ accounts'[id].CreateDateTime = now
             /\ \A w \in Workers :
                   pc'[w] # pc[w] =>
                      /\ call[w].arg.ID = id
                      /\ call[w].arg.CreateDateTime # now]_vars

\* 2001 was created and two transfers submitted with the same timestamp were
\* logged at different clock readings
C35_Witness ==
    /\ Len(transactions) = 2
    /\ transactions[1].DateTime = 0
    /\ transactions[2].DateTime = 1
    /\ "2001" \in DOMAIN accounts
    /\ accounts["2001"].CreateDateTime = 0

----------------------------------------------------------------------------
(* Properties of the order of the checks and of the queries *)

\* the request fails more than one check of CreateAccount, or fails a later
\* check with a stored identifier
SeveralFaults(id, currency, amount, balanceCurrency) ==
    LET invalid == ~IsValid(currency)
        mismatch == amount # 0 /\ balanceCurrency # currency
    IN  \/ id \in DOMAIN accounts /\ (invalid \/ mismatch)
        \/ id \notin DOMAIN accounts /\ invalid /\ mismatch

\* C36: a CreateAccount request with a stored identifier fails with
\* DuplicateAccount also when its currency is invalid or its non-zero balance
\* is in another currency, and a request with a new identifier and an invalid
\* currency fails with InvalidCurrency also when its non-zero balance is in
\* another currency; nothing is stored.
C36_ChecksInOrder ==
    [][lastOp' = "CreateAccount" =>
         \A id \in AccountIDs, currency \in AccountCurrencies,
            amount \in OpeningAmounts, balanceCurrency \in BalanceCurrencies :
            SeveralFaults(id, currency, amount, balanceCurrency) =>
               \/ /\ LedgerUntouched
                  /\ lastErr' = IF id \in DOMAIN accounts
                                THEN Err("DuplicateAccount", <<id>>)
                                ELSE Err("InvalidCurrency", <<currency>>)
               \/ \A name \in AccountNames :
                     ~CreateAccount(Request(id, name, currency, amount,
                                            balanceCurrency))]_vars

\* a request for the stored identifier 2001 was refused as a duplicate while
\* both identifiers were taken, so that every later check was left out
C36_Witness ==
    /\ lastOp = "CreateAccount"
    /\ lastErr = Err("DuplicateAccount", <<"2001">>)
    /\ DOMAIN accounts = AccountIDs
    /\ accounts["2001"].Currency = "EUR"
    /\ transactions = <<>>

\* C37: a GetAccountBalance, GetTransactionHistory or VerifyLedgerBalance
\* call, whatever it returns, leaves the accounts, the log and the clock as
\* they were, so that every call made after it gets the result, and leaves
\* the accounts, it would have got and left without it.
C37_QueriesChangeNothing ==
    [][lastOp' \in ReadOps =>
         /\ LedgerUntouched
         /\ \A tx \in TransactionInputs :
               /\ RecordTransactionError(accounts', tx)
                    = RecordTransactionError(accounts, tx)
               /\ (tx.DebitAccount \in DOMAIN accounts
                   /\ tx.CreditAccount \in DOMAIN accounts) =>
                      RecordTransactionAccounts(accounts', tx)
                        = RecordTransactionAccounts(accounts, tx)
         /\ \A id \in AccountIDs :
               /\ AccountExists(accounts', id) = AccountExists(accounts, id)
               /\ GetAccountBalanceError(accounts', id)
                    = GetAccountBalanceError(accounts, id)
               /\ GetAccountBalanceValue(accounts', id)
                    = GetAccountBalanceValue(accounts, id)
               /\ History(transactions', id) = History(transactions, id)
         /\ VerifyLedgerBalanceErrors(accounts')
              = VerifyLedgerBalanceErrors(accounts)]_vars

\* a balance query failed on a ledger that holds an account and a log entry
C37_Witness ==
    /\ Returned("GetAccountBalance", "AccountNotFound")
    /\ Len(transactions) = 1
    /\ DOMAIN accounts # {}

----------------------------------------------------------------------------
(* Properties of a client's successive reads *)

\* v is the balance account id had after some number of the logged
\* transactions
CommittedValue(id, v) ==
    \E k \in 0..Len(transactions) :
       v = opening[id] + NetLogged(SubSeq(transactions, 1, k), id)

\* the goroutines whose GetAccountBalance of id has read its value
HasRead(id) ==
    {w \in Workers : /\ call[w].op = "GetAccountBalance"
                     /\ call[w].arg = id
                     /\ pc[w] \in {"runlock", "done"}}

\* C38: every value a GetAccountBalance call returns while transfers run is
\* the account's balance after some number of the committed transfers, never
\* that of a transfer in progress, and whenever no transfer is in progress the
\* two balances add up to the total the accounts were opened with; the client
\* can nevertheless hold two values that do not add up to it (the witness).
C38_AtomicPerCall ==
    /\ \A id \in AccountIDs :
          \A w \in HasRead(id) :
             /\ local[w].err = Nil
             /\ local[w].val.Currency = accounts[id].Currency
             /\ CommittedValue(id, local[w].val.Amount)
    /\ mu.writer = 0 =>
          BalanceOf(accounts, "1001") + BalanceOf(accounts, "2001")
            = opening["1001"] + opening["2001"]

\* the client read 1001 and then 2001, both calls have returned, and the two
\* values do not add up to the total of the two accounts
C38_Witness ==
    \E v \in HasRead("1001"), w \in HasRead("2001") :
       /\ pc[v] = "done" /\ pc[w] = "done"
       /\ local[v].val.Amount + local[w].val.Amount
            # opening["1001"] + opening["2001"]
       /\ BalanceOf(accounts, "1001") + BalanceOf(accounts, "2001")
            = opening["1001"] + opening["2001"]

----------------------------------------------------------------------------
(* Properties of the HTTP handlers *)

\* the balance a client reads out of the JSON of a response
ReadMoney(json) == Money(ParsedDecimal(json.amount), json.currency)

\* the answer to a POST of an account or of a transaction: decodes says
\* whether the body decoded, err is what the engine returns for the decoded
\* value on the ledger as it was and op is the engine's operation
PostAnswered(decodes, err, op) ==
    /\ response'.status = IF decodes /\ err = Nil THEN 201 ELSE 400
    /\ response'.engineCalls = IF decodes THEN 1 ELSE 0
    /\ decodes => /\ lastOp' = op
                  /\ lastErr' = err
    /\ ~decodes => /\ LedgerUntouched
                   /\ UNCHANGED <<lastOp, lastErr, lastVal>>

\* C39: every handler calls the engine at most once and reports its outcome:
\* the account and the transaction handler answer 201 when the body decodes
\* and the engine returns no error and 400 otherwise, and leave the engine
\* alone when the body does not decode; the balance handler answers 404
\* when GetAccountBalance fails and otherwise 200 with the balance of the
\* account; the history handler answers 200 with the account's history in
\* the engine's order.
C39_HandlersReportTheEngine ==
    [][/\ response'.engineCalls <= 1
       /\ \A body \in AccountBodies :
             \/ PostAnswered(DecodeError(body) = Nil,
                             IF DecodeError(body) = Nil
                             THEN CreateAccountError(accounts,
                                                     DecodedAccount(body))
                             ELSE Nil,
                             "CreateAccount")
             \/ ~CreateAccountHandler(body)
       /\ \A body \in TransactionBodies :
             \/ PostAnswered(DecodeError(body) = Nil,
                             IF DecodeError(body) = Nil
                             THEN RecordTransactionError(accounts,
                                      DecodedTransaction(body))
                             ELSE Nil,
                             "RecordTransaction")
             \/ ~RecordTransactionHandler(body)
       /\ \A accountID \in AccountIDs :
             \/ ~GetBalanceHandler(accountID)
             \/ /\ response'.engineCalls = 1
                /\ LedgerUntouched
                /\ IF accountID \in DOMAIN accounts
                   THEN /\ response'.status = 200
                        /\ ReadMoney(response'.body[1].balance)
                             = accounts[accountID].Balance
                   ELSE response'.status = 404
       /\ \A accountID \in AccountIDs :
             \/ ~GetTransactionHistoryHandler(accountID)
             \/ /\ response'.engineCalls = 1
                /\ LedgerUntouched
                /\ response'.status = 200
                /\ LET sent == response'.body[1]
                       history == History(transactions, accountID)
                   IN  /\ Len(sent) = Len(history)
                       /\ \A k \in 1..Len(sent) :
                             /\ sent[k].ID = history[k].ID
                             /\ sent[k].DateTime = history[k].DateTime
                             /\ sent[k].DebitAccount
                                  = history[k].DebitAccount
                             /\ sent[k].CreditAccount
                                  = history[k].CreditAccount
                             /\ ReadMoney(sent[k].Amount)
                                  = history[k].Amount]_vars

\* a transaction was posted, decoded and recorded: the answer is 201 after
\* one call of the engine
C39_Witness ==
    /\ response.status = 201
    /\ response.engineCalls = 1
    /\ lastOp = "RecordTransaction"
    /\ lastErr = Nil
    /\ Len(transactions) = 1

====
